---------------------------- MODULE Spec2Model ----------------------------
(***************************************************************************)
(* Model of the flag validation and scope resolution helpers of the        *)
(* compute instances commands (command_lib/compute/instances/flags.py), of *)
(* the router update command (surface/compute/routers/update.py), of the   *)
(* dataproc jobs delete command (surface/dataproc/jobs/delete.py) and of   *)
(* the firebase android models list command                                *)
(* (surface/firebase/test/android/models/list.py).                         *)
(*                                                                         *)
(* Python values are modelled as follows.                                  *)
(*   - An optional value (None or a value) is a sequence of length at most *)
(*     one: None is << >>, the value v is <<v>>.                           *)
(*   - A dictionary (one --disk entry) is a function from the keys that    *)
(*     are given to strings; dict.get(k) is None when k is not in DOMAIN.  *)
(*   - An argparse namespace is a record; getattr(args, a, default) reads  *)
(*     the default when a is not in its DOMAIN.                            *)
(*   - A function that returns or raises yields an outcome record.         *)
(***************************************************************************)
EXTENDS Naturals, Sequences, FiniteSets, TLC

VARIABLES
    \* InstanceZoneScopeLister
    lsProject,        \* the core/project property (optional string)
    lsProjectZones,   \* zones of the project, as zones_service.List returns them
    lsNames,          \* underspecified_names
    lsErrors,         \* errors collected by MakeRequests
    lsMatching,       \* matching_instances returned by MakeRequests
    lsLog,            \* entries written to log.debug / log.status
    lsResult,         \* the returned dictionary (optional)
    lsRaised,         \* the exception that left the function (optional)
    lsPc

lsVars == <<lsProject, lsProjectZones, lsNames, lsErrors, lsMatching, lsLog,
            lsResult, lsRaised, lsPc>>

VARIABLES
    \* the disk validators
    args,         \* the parsed arguments handed to the validators
    enable_kms,   \* the enable_kms parameter of the command's release track
    called,       \* the validator that was called last ("none" before any was)
    ran,          \* the validators that ran in that call, in order
    outcome       \* what that call did: returned, or the error it raised

dkVars == <<args, enable_kms, called, ran, outcome>>

VARIABLES
    \* UpdateAlpha.Run (compute routers update)
    rtArgs,         \* the parsed arguments of the run
    rtRemote,       \* the router as the service holds it
    rtExisting,     \* `existing`, the fetched router (optional)
    rtReplacement,  \* `replacement`, the copy that is edited (optional)
    rtCalls,        \* the requests sent to the service, in order
    rtRaised,       \* the error that ended the run (optional)
    rtPc            \* the position of the run

rtVars == <<rtArgs, rtRemote, rtExisting, rtReplacement, rtCalls, rtRaised, rtPc>>

VARIABLES
    \* --local-ssd from the command line to ValidateLocalSsdFlags
    ssInput,    \* the values given to --local-ssd, as written
    ssArgs,     \* the parsed arguments (local_ssd is None until parsed)
    ssOutcome,  \* the error that rejected the input, if any
    ssPc        \* "start", "parsed", "validated" or "rejected"

ssVars == <<ssInput, ssArgs, ssOutcome, ssPc>>

VARIABLES
    \* Delete.Run (dataproc jobs delete)
    djId,      \* args.id
    djRemote,  \* the jobs the service holds
    djAnswer,  \* what the operator answered to the prompt (optional)
    djTrace,   \* the prompt, the requests and the log entries of the run, in order
    djRaised,  \* the error that ended the run (optional)
    djPc       \* the position of the run

djVars == <<djId, djRemote, djAnswer, djTrace, djRaised, djPc>>

VARIABLES
    \* ExpandAddressFlag
    eaAddress,   \* the value of --address (optional)
    eaRegion,    \* the region handed in
    eaProject,   \* the core/project property (optional)
    eaRemote,    \* the address resources the service holds
    eaRef,       \* address_ref (optional)
    eaRequests,  \* the requests sent to the service, in order
    eaErrors,    \* errors collected by MakeRequests
    eaResult,    \* the value returned (an optional string), once returned
    eaRaised,    \* the exception that left the function (optional)
    eaPc

eaVars == <<eaAddress, eaRegion, eaProject, eaRemote, eaRef, eaRequests, eaErrors,
            eaResult, eaRaised, eaPc>>

VARIABLES
    \* List.Run (firebase test android models list)
    fmRemote,   \* the models of the catalog the service holds, in its order
    fmCatalog,  \* `catalog`, once fetched (optional)
    fmResult,   \* the list returned (optional)
    fmRaised,   \* the error that ended the run (optional)
    fmPc        \* the position of the run

fmVars == <<fmRemote, fmCatalog, fmResult, fmRaised, fmPc>>

vars == <<lsVars, dkVars, rtVars, ssVars, djVars, eaVars, fmVars>>

\* What the actions of one part leave unchanged of the other parts.
lsOthers == <<dkVars, rtVars, ssVars, djVars, eaVars, fmVars>>
dkOthers == <<lsVars, rtVars, ssVars, djVars, eaVars, fmVars>>
rtOthers == <<lsVars, dkVars, ssVars, djVars, eaVars, fmVars>>
ssOthers == <<lsVars, dkVars, rtVars, djVars, eaVars, fmVars>>
djOthers == <<lsVars, dkVars, rtVars, ssVars, eaVars, fmVars>>
eaOthers == <<lsVars, dkVars, rtVars, ssVars, djVars, fmVars>>
fmOthers == <<lsVars, dkVars, rtVars, ssVars, djVars, eaVars>>



-----------------------------------------------------------------------------
(* Python values *)

None == << >>

Some(v) == <<v>>

\* Sequences over S of length at most n.
SeqUpTo(S, n) == UNION {[1..k -> S] : k \in 0..n}

\* Sequences over S of length at most n without repeated elements.
DistinctSeqUpTo(S, n) ==
    {s \in SeqUpTo(S, n) : \A i, j \in 1..Len(s) : i # j => s[i] # s[j]}

Range(s) == {s[i] : i \in 1..Len(s)}

\* The elements of s that are in keep, in order.
RECURSIVE FilterSeq(_, _)
FilterSeq(s, keep) ==
    IF s = << >> THEN << >>
    ELSE (IF Head(s) \in keep THEN <<Head(s)>> ELSE << >>) \o FilterSeq(Tail(s), keep)

-----------------------------------------------------------------------------
(* InstanceZoneScopeLister *)

MaxMatches == 3
MaxNames == 2
MaxErrors == 2

Zones == {"us-east1-b", "us-west1-a", "europe-west1-c"}
InstanceNames == {"vm-1", "vm-2"}
Projects == {"my-project"}
QueryErrors == {"403 forbidden", "503 unavailable"}

\* A zone URL as the compute API gives it in Instance.zone, by path segment.
ZoneUrl(project, zone) == <<"projects", project, "zones", zone>>

\* core_resources.REGISTRY.Parse(url, collection='compute.zones').Name():
\* the name of a zone reference is the last segment of its path.
ParseZoneName(url) == url[Len(url)]

\* messages.Zone(name=...)
ZoneMessage(name) == [name |-> name]

\* ZonesOfMatching with each zone named after the instance, not its zone.
ZonesOfMatching_InstanceName(matching) ==
    [i \in 1..Len(matching) |-> ZoneMessage(matching[i].name)]

\* The zones the else branch builds, one per matching instance, in order.
ZonesOfMatching(matching) ==
    [i \in 1..Len(matching) |-> ZoneMessage(ParseZoneName(matching[i].zone))]

\* ListerZones that settles on the zone of the first match.
ListerZones_PicksFirst(names, errors, matching, allZones) ==
    IF errors # << >> \/ matching = << >>
      THEN [zones |-> allZones, log |-> << >>]
      ELSE [zones |-> <<ZoneMessage(matching[1].zone[4])>>, log |-> << >>]

\* ListerZones that uses the instances a failed query returned.
ListerZones_ResultsOverErrors(names, errors, matching, allZones) ==
    IF matching # << >>
      THEN [zones |-> [i \in 1..Len(matching) |-> ZoneMessage(matching[i].zone[4])],
            log |-> << >>]
      ELSE [zones |-> allZones,
            log |-> << [to |-> "debug", text |-> "Errors fetching filtered aggregate list", arg |-> errors],
                       [to |-> "status", text |-> "Error fetching possible zones for instance", arg |-> names] >>]

\* ListerZones that puts the zones of the instances a failed query returned
\* ahead of the zones of the project.
ListerZones_MatchesFirst(names, errors, matching, allZones) ==
    IF errors # << >>
      THEN [zones |-> [i \in 1..Len(matching) |-> ZoneMessage(matching[i].zone[4])]
                      \o allZones,
            log |-> << [to |-> "debug", text |-> "Errors fetching filtered aggregate list", arg |-> errors],
                       [to |-> "status", text |-> "Error fetching possible zones for instance", arg |-> names] >>]
    ELSE IF matching = << >>
      THEN [zones |-> allZones,
            log |-> << [to |-> "debug", text |-> "Errors fetching filtered aggregate list", arg |-> errors],
                       [to |-> "status", text |-> "Unable to find an instance with name", arg |-> <<names[1]>>] >>]
    ELSE [zones |-> [i \in 1..Len(matching) |-> ZoneMessage(matching[i].zone[4])],
          log |-> << >>]

\* ListerZones that offers nothing when no instance is found.
ListerZones_NotFoundEmpty(names, errors, matching, allZones) ==
    IF errors # << >>
      THEN [zones |-> allZones,
            log |-> << [to |-> "debug", text |-> "Errors fetching filtered aggregate list", arg |-> errors],
                       [to |-> "status", text |-> "Error fetching possible zones for instance", arg |-> names] >>]
      ELSE [zones |-> [i \in 1..Len(matching) |-> ZoneMessage(matching[i].zone[4])],
            log |-> << >>]

\* The body of InstanceZoneScopeLister after MakeRequests has returned
\* `matching` and filled `errors`: the zones list and the log entries.
ListerZones(names, errors, matching, allZones) ==
    IF errors # << >>
      THEN [zones |-> allZones,
            log |-> << [to |-> "debug", text |-> "Errors fetching filtered aggregate list", arg |-> errors],
                       [to |-> "status", text |-> "Error fetching possible zones for instance", arg |-> names] >>]
    ELSE IF matching = << >>
      THEN [zones |-> allZones,
            log |-> << [to |-> "debug", text |-> "Errors fetching filtered aggregate list", arg |-> errors],
                       [to |-> "status", text |-> "Unable to find an instance with name", arg |-> <<names[1]>>] >>]
    ELSE [zones |-> ZonesOfMatching(matching), log |-> << >>]

lsInit ==
    /\ lsProject \in {None} \cup {Some(p) : p \in Projects}
    /\ lsProjectZones \in {[i \in 1..Len(s) |-> ZoneMessage(s[i])] :
                             s \in DistinctSeqUpTo(Zones, Cardinality(Zones))}
    /\ lsNames \in SeqUpTo(InstanceNames, MaxNames) \ {<< >>}
    /\ lsErrors = << >>
    /\ lsMatching = << >>
    /\ lsLog = << >>
    /\ lsResult = None
    /\ lsRaised = None
    /\ lsPc = "start"

\* properties.VALUES.core.project.Get(required=True) with the property unset.
InstanceZoneScopeLister_NoProject ==
    /\ lsPc = "start"
    /\ lsProject = None
    /\ lsRaised' = Some("RequiredPropertyError")
    /\ lsPc' = "raised"
    /\ UNCHANGED <<lsProject, lsProjectZones, lsNames, lsErrors, lsMatching,
                   lsLog, lsResult>>
    /\ UNCHANGED lsOthers

\* One call of InstanceZoneScopeLister: the aggregated-list query answers
\* with any errors and any instances named underspecified_names[0], each in a
\* zone of the project of its own.
InstanceZoneScopeLister ==
    /\ lsPc = "start"
    /\ lsProject # None
    /\ \E errors \in SeqUpTo(QueryErrors, MaxErrors),
          zs \in DistinctSeqUpTo({z.name : z \in Range(lsProjectZones)}, MaxMatches) :
          LET matching == [i \in 1..Len(zs) |->
                              [name |-> lsNames[1],
                               zone |-> ZoneUrl(lsProject[1], zs[i])]]
              r == ListerZones(lsNames, errors, matching, lsProjectZones)
          IN /\ lsErrors' = errors
             /\ lsMatching' = matching
             /\ lsLog' = lsLog \o r.log
             /\ lsResult' = Some([ZONE |-> r.zones])
    /\ lsPc' = "returned"
    /\ UNCHANGED <<lsProject, lsProjectZones, lsNames, lsRaised>>
    /\ UNCHANGED lsOthers

lsNext == InstanceZoneScopeLister_NoProject \/ InstanceZoneScopeLister

-----------------------------------------------------------------------------
(* Truth values, dictionaries, namespaces and outcomes *)

\* bool(x) for an optional string, an optional list and an optional number.
TruthyStr(o) == o # None /\ o[1] # ""
TruthyList(o) == o # None /\ o[1] # << >>
TruthyNum(o) == o # None /\ o[1] # 0

\* `x or []` for an optional list.
OrEmptyList(o) == IF TruthyList(o) THEN o[1] ELSE << >>

\* dict.get(key)
DictGet(dict, key) == IF key \in DOMAIN dict THEN Some(dict[key]) ELSE None

\* getattr(args, attr, default)
GetAttr(a, attr, default) == IF attr \in DOMAIN a THEN a[attr] ELSE default

\* '{0}'.format(x) for an optional string.
Format(o) == IF o = None THEN "None" ELSE o[1]

\* All dictionaries that give a subset of the keys of spec, each key k a
\* value of spec[k].
Dicts(spec) ==
    UNION {{d \in [K -> UNION {spec[k] : k \in K}] : \A k \in K : d[k] \in spec[k]} :
             K \in SUBSET DOMAIN spec}

\* The function returned without raising.
Returned == [raised |-> FALSE, error |-> "", message |-> "", value |-> ""]

\* raise exceptions.ToolException(message.format(value))
ToolException(message, value) ==
    [raised |-> TRUE, error |-> "ToolException", message |-> message, value |-> value]

-----------------------------------------------------------------------------
(* Disk flag validators *)

\* The flags AddDiskArgs declares when enable_kms.
KmsFlags == {"boot_disk_kms_key", "boot_disk_kms_keyring",
             "boot_disk_kms_location", "boot_disk_kms_project"}

\* Error messages of the disk validators, with {0} where a value is put in.
MsgNameMissing ==
    "[name] is missing in [--disk]. [--disk] value must be of the form [name=NAME [mode={ro,rw}] [boot={yes,no}] [device-name=DEVICE_NAME] [auto-delete={yes,no}]]."
MsgModeInvalid == "Value for [mode] in [--disk] must be [rw] or [ro], not [{0}]."
MsgAutoDeleteInvalid == "Value for [auto-delete] in [--disk] must be [yes] or [no], not [{0}]."
MsgRwManyInstances == "Cannot attach disk [{0}] in read-write mode to more than one instance."
MsgBootInvalid == "Value for [boot] in [--disk] must be [yes] or [no], not [{0}]."
MsgTwoBootDisks ==
    "Each instance can have exactly one boot disk. At least two boot disks were specified through [--disk]."
MsgBootDiskAndImage ==
    "Each instance can have exactly one boot disk. One boot disk was specified through [--disk] and another through [--image]."
MsgNewBootDiskOnly == "[{0}] can only be used when creating a new boot disk."
MsgCreateDiskName == "Cannot create a disk with [name]={} for more than one instance."
MsgCreateDiskCsek ==
    "Cannot create a disk with customer supplied key when disk name is not specified."
MsgCreateDiskImage ==
    "Cannot specify [image] and [image-family] for a [--create-disk]. The fields are mutually exclusive."

\* DiskCommonEntry that checks mode and auto-delete before the name.
DiskCommonEntry_NameLast(disk) ==
    LET disk_name == DictGet(disk, "name")
        mode_value == DictGet(disk, "mode")
        auto_delete_value == DictGet(disk, "auto-delete")
    IN IF TruthyStr(mode_value) /\ mode_value[1] \notin {"rw", "ro"}
         THEN ToolException(MsgModeInvalid, Format(mode_value))
       ELSE IF TruthyStr(auto_delete_value) /\ auto_delete_value[1] \notin {"yes", "no"}
         THEN ToolException(MsgAutoDeleteInvalid, Format(auto_delete_value))
       ELSE IF ~TruthyStr(disk_name)
         THEN ToolException(MsgNameMissing, "")
       ELSE Returned

\* The body of the loop of ValidateDiskCommonFlags for one --disk entry.
DiskCommonEntry(disk) ==
    LET disk_name == DictGet(disk, "name")
        mode_value == DictGet(disk, "mode")
        auto_delete_value == DictGet(disk, "auto-delete")
    IN IF ~TruthyStr(disk_name)
         THEN ToolException(MsgNameMissing, "")
       ELSE IF TruthyStr(mode_value) /\ mode_value[1] \notin {"rw", "ro"}
         THEN ToolException(MsgModeInvalid, Format(mode_value))
       ELSE IF TruthyStr(auto_delete_value) /\ auto_delete_value[1] \notin {"yes", "no"}
         THEN ToolException(MsgAutoDeleteInvalid, Format(auto_delete_value))
       ELSE Returned

RECURSIVE DiskCommonLoop(_, _)
DiskCommonLoop(disks, i) ==
    IF i > Len(disks) THEN Returned
    ELSE IF DiskCommonEntry(disks[i]).raised THEN DiskCommonEntry(disks[i])
    ELSE DiskCommonLoop(disks, i + 1)

ValidateDiskCommonFlags(a) == DiskCommonLoop(OrEmptyList(a.disk), 1)

\* DiskAccessModeEntry that does not look at the number of instances.
DiskAccessModeEntry_AnyCount(a, disk) ==
    IF DictGet(disk, "mode") = Some("rw")
      THEN ToolException(MsgRwManyInstances, Format(DictGet(disk, "name")))
      ELSE Returned

\* The body of the loop of ValidateDiskAccessModeFlags for one --disk entry.
DiskAccessModeEntry(a, disk) ==
    LET disk_name == DictGet(disk, "name")
        mode_value == DictGet(disk, "mode")
    IN IF Len(a.instance_names) > 1 /\ mode_value = Some("rw")
         THEN ToolException(MsgRwManyInstances, Format(disk_name))
       ELSE Returned

RECURSIVE DiskAccessModeLoop(_, _, _)
DiskAccessModeLoop(a, disks, i) ==
    IF i > Len(disks) THEN Returned
    ELSE IF DiskAccessModeEntry(a, disks[i]).raised THEN DiskAccessModeEntry(a, disks[i])
    ELSE DiskAccessModeLoop(a, disks, i + 1)

ValidateDiskAccessModeFlags(a) == DiskAccessModeLoop(a, OrEmptyList(a.disk), 1)

\* The loop of ValidateDiskBootFlags from entry i on, boot_disk_specified
\* being what the entries before i have set: the error raised, or the value
\* of boot_disk_specified the loop ends with.
RECURSIVE DiskBootLoop(_, _, _)
DiskBootLoop(disks, i, boot_disk_specified) ==
    IF i > Len(disks)
      THEN [outcome |-> Returned, boot_disk_specified |-> boot_disk_specified]
    ELSE LET boot_value == DictGet(disks[i], "boot")
         IN IF TruthyStr(boot_value) /\ boot_value[1] \notin {"yes", "no"}
              THEN [outcome |-> ToolException(MsgBootInvalid, Format(boot_value)),
                    boot_disk_specified |-> boot_disk_specified]
            ELSE IF boot_value = Some("yes")
              THEN IF boot_disk_specified
                     THEN [outcome |-> ToolException(MsgTwoBootDisks, ""),
                           boot_disk_specified |-> boot_disk_specified]
                     ELSE DiskBootLoop(disks, i + 1, TRUE)
            ELSE DiskBootLoop(disks, i + 1, boot_disk_specified)

\* BootDiskOnlyFlags without the check of --boot-disk-type.
BootDiskOnlyFlags_NoTypeCheck(a, kms) ==
    IF TruthyStr(a.boot_disk_device_name)
      THEN ToolException(MsgNewBootDiskOnly, "--boot-disk-device-name")
    ELSE IF TruthyNum(a.boot_disk_size)
      THEN ToolException(MsgNewBootDiskOnly, "--boot-disk-size")
    ELSE IF ~a.boot_disk_auto_delete
      THEN ToolException(MsgNewBootDiskOnly, "--no-boot-disk-auto-delete")
    ELSE IF kms /\ \E f \in KmsFlags : TruthyStr(a[f])
      THEN ToolException(MsgNewBootDiskOnly, "--boot-disk-kms-key")
    ELSE Returned

\* The checks of ValidateDiskBootFlags that follow the loop when an existing
\* disk is the boot disk and --image is not given.
BootDiskOnlyFlags(a, kms) ==
    IF TruthyStr(a.boot_disk_device_name)
      THEN ToolException(MsgNewBootDiskOnly, "--boot-disk-device-name")
    ELSE IF TruthyStr(a.boot_disk_type)
      THEN ToolException(MsgNewBootDiskOnly, "--boot-disk-type")
    ELSE IF TruthyNum(a.boot_disk_size)
      THEN ToolException(MsgNewBootDiskOnly, "--boot-disk-size")
    ELSE IF ~a.boot_disk_auto_delete
      THEN ToolException(MsgNewBootDiskOnly, "--no-boot-disk-auto-delete")
    ELSE IF kms /\ TruthyStr(a.boot_disk_kms_key)
      THEN ToolException(MsgNewBootDiskOnly, "--boot-disk-kms-key")
    ELSE IF kms /\ TruthyStr(a.boot_disk_kms_keyring)
      THEN ToolException(MsgNewBootDiskOnly, "--boot-disk-kms-keyring")
    ELSE IF kms /\ TruthyStr(a.boot_disk_kms_location)
      THEN ToolException(MsgNewBootDiskOnly, "--boot-disk-kms-location")
    ELSE IF kms /\ TruthyStr(a.boot_disk_kms_project)
      THEN ToolException(MsgNewBootDiskOnly, "--boot-disk-kms-project")
    ELSE Returned

\* ValidateDiskBootFlags without the check of --image.
ValidateDiskBootFlags_NoImageCheck(a, kms) ==
    LET loop == DiskBootLoop(OrEmptyList(a.disk), 1, FALSE)
    IN IF loop.outcome.raised THEN loop.outcome ELSE Returned

ValidateDiskBootFlags(a, kms) ==
    LET loop == DiskBootLoop(OrEmptyList(a.disk), 1, FALSE)
    IN IF loop.outcome.raised THEN loop.outcome
       ELSE IF TruthyStr(a.image) /\ loop.boot_disk_specified
         THEN ToolException(MsgBootDiskAndImage, "")
       ELSE IF loop.boot_disk_specified THEN BootDiskOnlyFlags(a, kms)
       ELSE Returned

\* The attribute of args that ValidateCreateDiskFlags reads the names of the
\* target resources from.
CreateDiskResourceNamesAttr == "names"

\* The body of the loop of ValidateCreateDiskFlags for one --create-disk entry.
CreateDiskEntry(a, disk) ==
    LET require_csek_key_create == GetAttr(a, "require_csek_key_create", None)
        csek_key_file == GetAttr(a, "csek_key_file", None)
        resource_names == GetAttr(a, CreateDiskResourceNamesAttr, << >>)
        disk_name == DictGet(disk, "name")
        mode_value == DictGet(disk, "mode")
        image_value == DictGet(disk, "image")
        image_family_value == DictGet(disk, "image-family")
    IN IF Len(resource_names) > 1 /\ TruthyStr(disk_name)
         THEN ToolException(MsgCreateDiskName, Format(disk_name))
       ELSE IF /\ ~TruthyStr(disk_name)
               /\ require_csek_key_create = Some(TRUE)
               /\ TruthyStr(csek_key_file)
         THEN ToolException(MsgCreateDiskCsek, "")
       ELSE IF TruthyStr(mode_value) /\ mode_value[1] \notin {"rw", "ro"}
         THEN ToolException(MsgModeInvalid, Format(mode_value))
       ELSE IF TruthyStr(image_value) /\ TruthyStr(image_family_value)
         THEN ToolException(MsgCreateDiskImage, "")
       ELSE Returned

RECURSIVE CreateDiskLoop(_, _, _)
CreateDiskLoop(a, disks, i) ==
    IF i > Len(disks) THEN Returned
    ELSE IF CreateDiskEntry(a, disks[i]).raised THEN CreateDiskEntry(a, disks[i])
    ELSE CreateDiskLoop(a, disks, i + 1)

ValidateCreateDiskFlags(a) ==
    CreateDiskLoop(a, OrEmptyList(GetAttr(a, "create_disk", None)), 1)

\* The validators of the disk flags by name.
DiskValidator(name, a, kms) ==
    CASE name = "ValidateDiskCommonFlags" -> ValidateDiskCommonFlags(a)
      [] name = "ValidateDiskAccessModeFlags" -> ValidateDiskAccessModeFlags(a)
      [] name = "ValidateDiskBootFlags" -> ValidateDiskBootFlags(a, kms)
      [] name = "ValidateCreateDiskFlags" -> ValidateCreateDiskFlags(a)

\* The calls of `order` one after the other from the i-th on, `before` being
\* the validators that have run: a validator that raises ends the run.
RECURSIVE RunValidators(_, _, _, _, _)
RunValidators(order, i, before, a, kms) ==
    IF i > Len(order) THEN [outcome |-> Returned, ran |-> before]
    ELSE IF DiskValidator(order[i], a, kms).raised
      THEN [outcome |-> DiskValidator(order[i], a, kms), ran |-> Append(before, order[i])]
    ELSE RunValidators(order, i + 1, Append(before, order[i]), a, kms)

\* RunDiskValidators with the boot flags checked before the access mode.
RunDiskValidators_BootFirst(a, kms) ==
    RunValidators(<<"ValidateDiskCommonFlags", "ValidateDiskBootFlags",
                    "ValidateDiskAccessModeFlags", "ValidateCreateDiskFlags">>,
                  1, << >>, a, kms)

\* The body of ValidateDiskFlags: the four validators in the order of the
\* code.
RunDiskValidators(a, kms) ==
    RunValidators(<<"ValidateDiskCommonFlags", "ValidateDiskAccessModeFlags",
                    "ValidateDiskBootFlags", "ValidateCreateDiskFlags">>,
                  1, << >>, a, kms)

\* What ValidateDiskFlags does: it returns, or raises the error of the first
\* validator that raises.
ValidateDiskFlags(a, kms) == RunDiskValidators(a, kms).outcome

-----------------------------------------------------------------------------
(* Local SSD flag validator *)

\* raise exceptions.InvalidArgumentException(parameter_name, message), with
\* the value the message is formatted with.
InvalidArgumentException(parameter_name, message, value) ==
    [raised |-> TRUE, error |-> "InvalidArgumentException", message |-> message,
     value |-> value, parameter_name |-> parameter_name]

LOCAL_SSD_INTERFACES == <<"NVME", "SCSI">>

\* Sizes are counted in MB (2^20 bytes), so that 375GB stays a small number.
BYTES_IN_ONE_GB == 1024

LocalSsdSizeUnit == 375 * BYTES_IN_ONE_GB

\* The messages of ValidateLocalSsdFlags, {ok} being ', '.join of
\* LOCAL_SSD_INTERFACES.
MsgLocalSsdInterface ==
    "Unexpected local SSD interface: [{given}]. Legal values are [NVME, SCSI]."
MsgLocalSsdSize ==
    "Unexpected local SSD size: [{given}]. Legal values are positive multiples of 375GB."

\* LocalSsdEntry without the check of the size.
LocalSsdEntry_NoSizeCheck(local_ssd) ==
    LET interface == DictGet(local_ssd, "interface")
    IN IF TruthyStr(interface) /\ interface[1] \notin Range(LOCAL_SSD_INTERFACES)
         THEN InvalidArgumentException("--local-ssd:interface", MsgLocalSsdInterface,
                                       interface[1])
       ELSE Returned

\* The body of the loop of ValidateLocalSsdFlags for one --local-ssd entry.
LocalSsdEntry(local_ssd) ==
    LET interface == DictGet(local_ssd, "interface")
        size == DictGet(local_ssd, "size")
    IN IF TruthyStr(interface) /\ interface[1] \notin Range(LOCAL_SSD_INTERFACES)
         THEN InvalidArgumentException("--local-ssd:interface", MsgLocalSsdInterface,
                                       interface[1])
       ELSE IF size # None /\ size[1] % LocalSsdSizeUnit # 0
         THEN InvalidArgumentException("--local-ssd:size", MsgLocalSsdSize, size[1])
       ELSE Returned

RECURSIVE LocalSsdLoop(_, _)
LocalSsdLoop(local_ssds, i) ==
    IF i > Len(local_ssds) THEN Returned
    ELSE IF LocalSsdEntry(local_ssds[i]).raised THEN LocalSsdEntry(local_ssds[i])
    ELSE LocalSsdLoop(local_ssds, i + 1)

ValidateLocalSsdFlags(a) == LocalSsdLoop(OrEmptyList(a.local_ssd), 1)

-----------------------------------------------------------------------------
(* Network interface flag validator *)

\* raise exceptions.ConflictingArgumentsException(*arguments); a string that
\* the code joins from parts is the sequence of its parts.
ConflictingArgumentsException(arguments) ==
    [raised |-> TRUE, error |-> "ConflictingArgumentsException", message |-> "",
     value |-> "", arguments |-> arguments]

\* The flags ValidateNicFlags looks for next to --network-interface.
NicConflictingArgs == <<"address", "network", "private_network_ip", "subnet">>

\* '--{0}'.format(arg.replace('_', '-'))
FlagOfArg ==
    [address |-> "--address", network |-> "--network",
     private_network_ip |-> "--private-network-ip", subnet |-> "--subnet",
     network_tier |-> "--network-tier"]

\* ValidateNicFlags that names the first conflicting flag alone.
ValidateNicFlags_FirstOnly(a) ==
    LET network_interface == GetAttr(a, "network_interface", None)
        conflicting_args_present ==
            FilterSeq(NicConflictingArgs,
                      {arg \in Range(NicConflictingArgs) : TruthyStr(GetAttr(a, arg, None))})
    IN IF network_interface = None THEN Returned
       ELSE IF \E i \in 1..Len(network_interface[1]) :
                 {"address", "no-address"} \subseteq DOMAIN network_interface[1][i]
         THEN InvalidArgumentException(
                  "--network-interface",
                  "specifies both address and no-address for one interface", "")
       ELSE IF conflicting_args_present = << >> THEN Returned
       ELSE ConflictingArgumentsException(
                <<"--network-interface", "all of the following: ",
                  FlagOfArg[conflicting_args_present[1]]>>)

ValidateNicFlags(a) ==
    LET network_interface == GetAttr(a, "network_interface", None)
        conflicting_args_present ==
            FilterSeq(NicConflictingArgs,
                      {arg \in Range(NicConflictingArgs) : TruthyStr(GetAttr(a, arg, None))})
    IN IF network_interface = None THEN Returned
       ELSE IF \E i \in 1..Len(network_interface[1]) :
                 {"address", "no-address"} \subseteq DOMAIN network_interface[1][i]
         THEN InvalidArgumentException(
                  "--network-interface",
                  "specifies both address and no-address for one interface", "")
       ELSE IF conflicting_args_present = << >> THEN Returned
       ELSE ConflictingArgumentsException(
                <<"--network-interface", "all of the following: ">>
                \o [i \in 1..Len(conflicting_args_present) |->
                       FlagOfArg[conflicting_args_present[i]]])

-----------------------------------------------------------------------------
(* Service account and scope flag validator *)

\* raise exceptions.RequiredArgumentException(parameter_name, message)
RequiredArgumentException(parameter_name, message) ==
    [raised |-> TRUE, error |-> "RequiredArgumentException", message |-> message,
     value |-> "", parameter_name |-> parameter_name]

\* The check of the scopes: an empty scope is rejected.
RejectEmptyScopes(a) ==
    IF \E i \in 1..Len(OrEmptyList(a.scopes)) : OrEmptyList(a.scopes)[i] = ""
      THEN InvalidArgumentException("--scopes", "Scope cannot be an empty string.", "")
      ELSE Returned

\* ValidateServiceAccountAndScopeArgs that looks at the scopes first.
ValidateServiceAccountAndScopeArgs_ScopesFirst(a) ==
    IF RejectEmptyScopes(a).raised THEN RejectEmptyScopes(a)
    ELSE IF a.no_service_account /\ ~a.no_scopes
      THEN RequiredArgumentException("--no-scopes",
                                     "required with argument --no-service-account")
    ELSE Returned

ValidateServiceAccountAndScopeArgs(a) ==
    IF a.no_service_account /\ ~a.no_scopes
      THEN RequiredArgumentException("--no-scopes",
                                     "required with argument --no-service-account")
    ELSE RejectEmptyScopes(a)

-----------------------------------------------------------------------------
(* Public DNS, public PTR, accelerator and network tier flag validators *)

\* constants.DEFAULT_NETWORK_INTERFACE, the default of --network-interface.
DEFAULT_NETWORK_INTERFACE == "nic0"

\* The values of --network-tier for an instance, as its help gives them.
NETWORK_TIER_CHOICES_FOR_INSTANCE == {"PREMIUM", "STANDARD"}

\* A flag of action store_true that the command declares is Some(TRUE) or
\* Some(FALSE); getattr gives None for one it does not declare.
ValidatePublicDnsFlags(a) ==
    LET network_interface == GetAttr(a, "network_interface", None)
        public_dns == GetAttr(a, "public_dns", None)
    IN IF /\ public_dns = Some(TRUE)
          /\ network_interface # None
          /\ network_interface # Some(DEFAULT_NETWORK_INTERFACE)
         THEN ToolException(
                  "Public DNS can only be enabled for default network interface '{0}' rather than '{1}'.",
                  Format(network_interface))
       ELSE Returned

ValidatePublicPtrFlags(a) ==
    LET network_interface == GetAttr(a, "network_interface", None)
        public_ptr == GetAttr(a, "public_ptr", None)
    IN IF /\ public_ptr = Some(TRUE)
          /\ network_interface # None
          /\ network_interface # Some(DEFAULT_NETWORK_INTERFACE)
         THEN ToolException(
                  "Public PTR can only be enabled for default network interface '{0}' rather than '{1}'.",
                  Format(network_interface))
       ELSE IF a.public_ptr_domain # None /\ a.no_public_ptr = Some(TRUE)
         THEN ConflictingArgumentsException(<<"--public-ptr-domain", "--no-public-ptr">>)
       ELSE Returned

\* accelerator is None or a dictionary; an empty dictionary is false.
ValidateAcceleratorArgs(a) ==
    LET accelerator_args == GetAttr(a, "accelerator", None)
    IN IF accelerator_args # None /\ DOMAIN accelerator_args[1] # {}
          /\ (IF "type" \in DOMAIN accelerator_args[1]
                THEN accelerator_args[1].type ELSE "") = ""
         THEN InvalidArgumentException(
                  "--accelerator",
                  "accelerator type must be specified. e.g. --accelerator type=nvidia-tesla-k80,count=2",
                  "")
       ELSE Returned

ValidateNetworkTierArgs(a) ==
    IF TruthyStr(a.network_tier) /\ a.network_tier[1] \notin NETWORK_TIER_CHOICES_FOR_INSTANCE
      THEN InvalidArgumentException("--network-tier", "Invalid network tier [{tier}]",
                                    a.network_tier[1])
      ELSE Returned

-----------------------------------------------------------------------------
(* The parsed arguments the disk validators are run on *)

MaxInstances == 2
MaxDisks == 2
MaxBootDisks == 3
MaxBootFlagDisks == 1
MaxCreateDisks == 1

TenGB == 10

\* None, or a list over S of length at most n (the empty list included).
OptLists(S, n) == {None} \cup {Some(l) : l \in SeqUpTo(S, n)}

\* instance_names is a plural positional: at least one name. The validators
\* read only how many names there are.
TargetNames == <<"vm-1", "vm-2", "vm-3", "vm-4">>

InstanceNameLists == {SubSeq(TargetNames, 1, n) : n \in 1..MaxInstances}

\* The namespace with no disk flag given: AddDiskArgs (with the KMS flags
\* when enable_kms) and the instance_names positional at their defaults.
BaseArgs(kms) ==
    [disk |-> None,
     instance_names |-> <<"vm-1">>,
     image |-> None,
     boot_disk_device_name |-> None,
     boot_disk_type |-> None,
     boot_disk_size |-> None,
     boot_disk_auto_delete |-> TRUE]
    @@ (IF kms THEN [f \in KmsFlags |-> None] ELSE << >>)

\* --disk entries that differ in name and mode, for any number of instances.
AccessEntries ==
    Dicts([name |-> {"disk-1", "disk-2"}, mode |-> {"", "ro", "rw", "rx"}])

AccessArgs(kms) ==
    {[BaseArgs(kms) EXCEPT !.disk = d, !.instance_names = n] :
        d \in OptLists(AccessEntries, MaxDisks), n \in InstanceNameLists}

\* --disk entries that differ in boot.
BootEntries ==
    {[name |-> "disk-1"] @@ d : d \in Dicts([boot |-> {"", "yes", "no", "maybe"}])}

\* Several --disk entries with and without --image.
BootListArgs(kms) ==
    {[BaseArgs(kms) EXCEPT !.disk = d, !.image = i] :
        d \in OptLists(BootEntries, MaxBootDisks),
        i \in {None, Some(""), Some("debian-9")}}

\* Every combination of the boot disk flags, with and without a boot disk
\* among the --disk entries.
BootFlagArgs(kms) ==
    {[disk |-> d,
      instance_names |-> <<"vm-1">>,
      image |-> None,
      boot_disk_device_name |-> dn,
      boot_disk_type |-> dt,
      boot_disk_size |-> ds,
      boot_disk_auto_delete |-> ad] @@ k :
        d \in OptLists(BootEntries, MaxBootFlagDisks),
        dn \in {None, Some(""), Some("sda")},
        dt \in {None, Some("pd-ssd")},
        ds \in {None, Some(TenGB)},
        ad \in BOOLEAN,
        k \in IF kms THEN [KmsFlags -> {None, Some("key-1")}] ELSE {<< >>}}

\* --create-disk entries, with the target names under instance_names and,
\* for the commands that declare it, under names.
CreateDiskEntries ==
    Dicts([name |-> {"", "data-1"}, image |-> {"debian-9"}]
          @@ ("image-family" :> {"debian"}))

CreateDiskArgs(kms) ==
    {[BaseArgs(kms) EXCEPT !.instance_names = n] @@ c @@ r @@ k @@ m :
        n \in InstanceNameLists,
        c \in {<< >>} \cup {[create_disk |-> l] : l \in OptLists(CreateDiskEntries, MaxCreateDisks)},
        r \in {<< >>, [require_csek_key_create |-> Some(TRUE)]},
        k \in {<< >>, [csek_key_file |-> Some("keys.json")]},
        m \in {<< >>} \cup {[names |-> l] : l \in InstanceNameLists}}

\* One --disk entry that gives any of the enumerated keys an allowed value,
\* the empty string or a value outside the allowed set.
EnumEntries ==
    {[name |-> "disk-1"] @@ d :
        d \in Dicts([mode |-> {"", "ro", "rx"}, boot |-> {"", "no", "maybe"}]
                      @@ ("auto-delete" :> {"", "yes", "always"}))}

\* --create-disk entries that give mode alone.
EnumCreateEntries == Dicts([mode |-> {"", "rw"}])

EnumArgs(kms) ==
    {[BaseArgs(kms) EXCEPT !.disk = Some(<<e>>)] @@ c :
        e \in EnumEntries,
        c \in {<< >>} \cup {[create_disk |-> Some(<<ce>>)] : ce \in EnumCreateEntries}}

\* --disk entries with and without a name whose mode or auto-delete is not
\* allowed.
NamelessEntries ==
    {[mode |-> "rx"], "auto-delete" :> "always",
     [name |-> "", mode |-> "rx"] @@ ("auto-delete" :> "always"),
     [name |-> "disk-1"] @@ ("auto-delete" :> "always")}

NamelessArgs(kms) ==
    {[BaseArgs(kms) EXCEPT !.disk = Some(d)] :
        d \in SeqUpTo(NamelessEntries, MaxDisks) \ {<< >>}}

MaxLocalSsds == 2

\* --local-ssd entries as the flag's parser leaves them: interface in upper
\* case, size not below 375GB.
LocalSsdEntries ==
    {i @@ s : i \in Dicts([interface |-> {"", "NVME", "IDE"}]),
              s \in Dicts([size |-> {LocalSsdSizeUnit, 400 * BYTES_IN_ONE_GB}])}

LocalSsdArgs(kms) ==
    {BaseArgs(kms) @@ [local_ssd |-> l] : l \in OptLists(LocalSsdEntries, MaxLocalSsds)}

\* A namespace handed to ValidateLocalSsdFlags by a caller whose parser sets
\* no lower bound on the size: one entry of size 0, 375GB or 750GB.
UnboundedLocalSsdArgs(kms) ==
    {BaseArgs(kms) @@ [local_ssd |-> Some(<<[size |-> s]>>)] :
        s \in {0, LocalSsdSizeUnit, 2 * LocalSsdSizeUnit}}

MaxNics == 2

\* --network-interface entries: address with a value, no-address as a key
\* alone.
NicEntries == {[address |-> "1.2.3.4"], "no-address" :> ""}

\* --network-interface (absent, or given at least once) with the flags of a
\* single interface.
NicArgs(kms) ==
    {BaseArgs(kms) @@ [network_interface |-> ni, address |-> ad, network |-> nw,
                       private_network_ip |-> ip, subnet |-> sn, network_tier |-> nt] :
        ni \in OptLists(NicEntries, MaxNics) \ {Some(<< >>)},
        ad \in {None, Some(""), Some("1.2.3.4")},
        nw \in {None, Some("default")},
        ip \in {None, Some("10.0.0.2")},
        sn \in {None, Some("subnet-1")},
        nt \in {None, Some("PREMIUM")}}

MaxScopes == 2

\* --no-service-account, --no-scopes and --scopes; the last two exclude each
\* other in the parser.
ServiceAccountArgs(kms) ==
    LET all == {BaseArgs(kms) @@ [no_service_account |-> sa, no_scopes |-> ns,
                                  scopes |-> sc] :
                   sa \in BOOLEAN, ns \in BOOLEAN,
                   sc \in OptLists({"", "compute-rw"}, MaxScopes)}
    IN {a \in all : a.no_scopes => a.scopes = None}

MaxMixedDisks == 2

\* --disk entries that break the rules of several validators at once, for
\* two instances, with and without a --create-disk entry that breaks one.
SeveralRulesEntries ==
    {[name |-> "disk-1"] @@ d : d \in Dicts([mode |-> {"rw", "rx"}, boot |-> {"maybe"}])}

SeveralRulesArgs(kms) ==
    {[BaseArgs(kms) EXCEPT !.disk = Some(d), !.instance_names = <<"vm-1", "vm-2">>] @@ c :
        d \in SeqUpTo(SeveralRulesEntries, MaxMixedDisks) \ {<< >>},
        c \in {<< >>, [create_disk |-> Some(<<[mode |-> "rx"]>>)]}}

\* The flags of an access configuration: --network-interface names one
\* interface.
AccessConfigArgs(kms) ==
    {BaseArgs(kms) @@ ni @@ [public_dns |-> Some(pd), public_ptr |-> Some(pp),
                             public_ptr_domain |-> dom, no_public_ptr |-> Some(np)] :
        ni \in {<< >>} \cup {[network_interface |-> i] : i \in {None, Some("nic0"), Some("nic1")}},
        pd \in BOOLEAN, pp \in BOOLEAN, np \in BOOLEAN,
        dom \in {None, Some("example.com")}}

\* --accelerator and --network-tier.
AcceleratorArgs(kms) ==
    {BaseArgs(kms) @@ [accelerator |-> acc, network_tier |-> nt] :
        acc \in {None} \cup {Some(t @@ c) : t \in Dicts([type |-> {"", "nvidia-tesla-k80"}]),
                                            c \in Dicts([count |-> {2}])},
        nt \in {None, Some(""), Some("PREMIUM"), Some("STANDARD"), Some("GOLD")}}

\* enable_kms is read by ValidateDiskBootFlags alone.
DiskArgs(kms) ==
    IF kms THEN BootListArgs(kms) \cup BootFlagArgs(kms)
    ELSE AccessArgs(kms) \cup BootListArgs(kms) \cup BootFlagArgs(kms)
            \cup CreateDiskArgs(kms) \cup EnumArgs(kms) \cup LocalSsdArgs(kms)
            \cup NicArgs(kms) \cup ServiceAccountArgs(kms) \cup SeveralRulesArgs(kms)
            \cup AccessConfigArgs(kms) \cup AcceleratorArgs(kms)
            \cup UnboundedLocalSsdArgs(kms) \cup NamelessArgs(kms)

dkInit ==
    /\ enable_kms \in BOOLEAN
    /\ args \in DiskArgs(enable_kms)
    /\ called = "none"
    /\ ran = << >>
    /\ outcome = Returned

\* A validator is called while the command runs: the exception one raises
\* propagates out of Run, and nothing is called after it.

\* A call of ValidateDiskCommonFlags that writes the default mode into the
\* entries that give none.
Call_ValidateDiskCommonFlags_FillsMode ==
    /\ ~outcome.raised
    /\ called' = "ValidateDiskCommonFlags"
    /\ ran' = <<"ValidateDiskCommonFlags">>
    /\ outcome' = ValidateDiskCommonFlags(args)
    /\ args' = [args EXCEPT !.disk =
                   IF args.disk = None THEN None
                   ELSE Some([i \in 1..Len(args.disk[1]) |->
                                args.disk[1][i] @@ [mode |-> "rw"]])]
    /\ UNCHANGED enable_kms
    /\ UNCHANGED dkOthers

Call_ValidateDiskCommonFlags ==
    /\ ~outcome.raised
    /\ called' = "ValidateDiskCommonFlags"
    /\ ran' = <<"ValidateDiskCommonFlags">>
    /\ outcome' = ValidateDiskCommonFlags(args)
    /\ UNCHANGED <<args, enable_kms>>
    /\ UNCHANGED dkOthers

Call_ValidateDiskAccessModeFlags ==
    /\ ~outcome.raised
    /\ called' = "ValidateDiskAccessModeFlags"
    /\ ran' = <<"ValidateDiskAccessModeFlags">>
    /\ outcome' = ValidateDiskAccessModeFlags(args)
    /\ UNCHANGED <<args, enable_kms>>
    /\ UNCHANGED dkOthers

Call_ValidateDiskBootFlags ==
    /\ ~outcome.raised
    /\ called' = "ValidateDiskBootFlags"
    /\ ran' = <<"ValidateDiskBootFlags">>
    /\ outcome' = ValidateDiskBootFlags(args, enable_kms)
    /\ UNCHANGED <<args, enable_kms>>
    /\ UNCHANGED dkOthers

Call_ValidateCreateDiskFlags ==
    /\ ~outcome.raised
    /\ called' = "ValidateCreateDiskFlags"
    /\ ran' = <<"ValidateCreateDiskFlags">>
    /\ outcome' = ValidateCreateDiskFlags(args)
    /\ UNCHANGED <<args, enable_kms>>
    /\ UNCHANGED dkOthers

Call_ValidateDiskFlags ==
    /\ ~outcome.raised
    /\ called' = "ValidateDiskFlags"
    /\ ran' = RunDiskValidators(args, enable_kms).ran
    /\ outcome' = ValidateDiskFlags(args, enable_kms)
    /\ UNCHANGED <<args, enable_kms>>
    /\ UNCHANGED dkOthers

\* The validators of the flags that not every command declares are called
\* by the commands that declare them.
Call_ValidateLocalSsdFlags ==
    /\ ~outcome.raised
    /\ "local_ssd" \in DOMAIN args
    /\ called' = "ValidateLocalSsdFlags"
    /\ ran' = <<"ValidateLocalSsdFlags">>
    /\ outcome' = ValidateLocalSsdFlags(args)
    /\ UNCHANGED <<args, enable_kms>>
    /\ UNCHANGED dkOthers

Call_ValidateNicFlags ==
    /\ ~outcome.raised
    /\ {"network_interface", "address"} \subseteq DOMAIN args
    /\ called' = "ValidateNicFlags"
    /\ ran' = <<"ValidateNicFlags">>
    /\ outcome' = ValidateNicFlags(args)
    /\ UNCHANGED <<args, enable_kms>>
    /\ UNCHANGED dkOthers

Call_ValidateServiceAccountAndScopeArgs ==
    /\ ~outcome.raised
    /\ "no_service_account" \in DOMAIN args
    /\ called' = "ValidateServiceAccountAndScopeArgs"
    /\ ran' = <<"ValidateServiceAccountAndScopeArgs">>
    /\ outcome' = ValidateServiceAccountAndScopeArgs(args)
    /\ UNCHANGED <<args, enable_kms>>
    /\ UNCHANGED dkOthers

Call_ValidatePublicDnsFlags ==
    /\ ~outcome.raised
    /\ "public_dns" \in DOMAIN args
    /\ called' = "ValidatePublicDnsFlags"
    /\ ran' = <<"ValidatePublicDnsFlags">>
    /\ outcome' = ValidatePublicDnsFlags(args)
    /\ UNCHANGED <<args, enable_kms>>
    /\ UNCHANGED dkOthers

Call_ValidatePublicPtrFlags ==
    /\ ~outcome.raised
    /\ "public_ptr" \in DOMAIN args
    /\ called' = "ValidatePublicPtrFlags"
    /\ ran' = <<"ValidatePublicPtrFlags">>
    /\ outcome' = ValidatePublicPtrFlags(args)
    /\ UNCHANGED <<args, enable_kms>>
    /\ UNCHANGED dkOthers

Call_ValidateAcceleratorArgs ==
    /\ ~outcome.raised
    /\ "accelerator" \in DOMAIN args
    /\ called' = "ValidateAcceleratorArgs"
    /\ ran' = <<"ValidateAcceleratorArgs">>
    /\ outcome' = ValidateAcceleratorArgs(args)
    /\ UNCHANGED <<args, enable_kms>>
    /\ UNCHANGED dkOthers

Call_ValidateNetworkTierArgs ==
    /\ ~outcome.raised
    /\ "network_tier" \in DOMAIN args
    /\ called' = "ValidateNetworkTierArgs"
    /\ ran' = <<"ValidateNetworkTierArgs">>
    /\ outcome' = ValidateNetworkTierArgs(args)
    /\ UNCHANGED <<args, enable_kms>>
    /\ UNCHANGED dkOthers

dkNext ==
    \/ Call_ValidateDiskCommonFlags
    \/ Call_ValidatePublicDnsFlags
    \/ Call_ValidatePublicPtrFlags
    \/ Call_ValidateAcceleratorArgs
    \/ Call_ValidateNetworkTierArgs
    \/ Call_ValidateServiceAccountAndScopeArgs
    \/ Call_ValidateNicFlags
    \/ Call_ValidateLocalSsdFlags
    \/ Call_ValidateDiskAccessModeFlags
    \/ Call_ValidateDiskBootFlags
    \/ Call_ValidateCreateDiskFlags
    \/ Call_ValidateDiskFlags

-----------------------------------------------------------------------------
(* --local-ssd with a size: the flag's parser, then ValidateLocalSsdFlags *)

MaxLocalSsdInputs == 1

\* A size as written: a whole number and a unit; no unit means GB.
SizeInputs ==
    [amount : {0, 370, 375, 400, 750}, unit : {"", "MB", "GB", "TB"}]
        \cup [amount : {384000, 384001}, unit : {"MB"}]

\* The number of MB in one unit.
BinaryScale == [MB |-> 1, GB |-> BYTES_IN_ONE_GB, TB |-> BYTES_IN_ONE_GB * 1024]

\* arg_parsers.BinarySize without the bound: the size in MB.
ParseBinarySize(size) ==
    size.amount * BinaryScale[IF size.unit = "" THEN "GB" ELSE size.unit]

\* lower_bound='375GB'
LocalSsdLowerBound == ParseBinarySize([amount |-> 375, unit |-> "GB"])

\* lambda x: x.upper()
Upper(s) ==
    IF s \in {"nvme", "NVME"} THEN "NVME"
    ELSE IF s \in {"scsi", "SCSI"} THEN "SCSI"
    ELSE IF s \in {"ide", "IDE"} THEN "IDE"
    ELSE s

\* The values of --local-ssd as written: interface and size are optional.
LocalSsdInputs ==
    {i @@ s : i \in Dicts([interface |-> {"nvme", "SCSI", "ide"}]),
              s \in Dicts([size |-> SizeInputs])}

\* One value of --local-ssd as ArgDict parses it, key by key.
ParseLocalSsd(input) ==
    [k \in DOMAIN input |->
        IF k = "size" THEN ParseBinarySize(input[k]) ELSE Upper(input[k])]

\* BinarySize rejects a size below its lower bound.
BelowLowerBound(input) ==
    "size" \in DOMAIN input /\ ParseBinarySize(input.size) < LocalSsdLowerBound

ArgumentTypeError(message) ==
    [raised |-> TRUE, error |-> "ArgumentTypeError", message |-> message, value |-> ""]

ssInit ==
    /\ ssInput \in SeqUpTo(LocalSsdInputs, MaxLocalSsdInputs)
    /\ ssArgs = [local_ssd |-> None]
    /\ ssOutcome = Returned
    /\ ssPc = "start"

\* argparse parses every value of --local-ssd (action='append'); the first
\* value a parser rejects ends the command.
LocalSsd_Parse ==
    /\ ssPc = "start"
    /\ IF \E i \in 1..Len(ssInput) : BelowLowerBound(ssInput[i])
         THEN /\ ssOutcome' = ArgumentTypeError(
                                  "value must be greater than or equal to 375GB")
              /\ ssPc' = "rejected"
              /\ UNCHANGED ssArgs
         ELSE /\ ssArgs' = [local_ssd |->
                              IF ssInput = << >> THEN None
                              ELSE Some([i \in 1..Len(ssInput) |->
                                           ParseLocalSsd(ssInput[i])])]
              /\ ssPc' = "parsed"
              /\ UNCHANGED ssOutcome
    /\ UNCHANGED ssInput
    /\ UNCHANGED ssOthers

LocalSsd_Validate ==
    /\ ssPc = "parsed"
    /\ ssOutcome' = ValidateLocalSsdFlags(ssArgs)
    /\ ssPc' = IF ValidateLocalSsdFlags(ssArgs).raised THEN "rejected" ELSE "validated"
    /\ UNCHANGED <<ssInput, ssArgs>>
    /\ UNCHANGED ssOthers

ssNext ==
    \/ LocalSsd_Parse
    \/ LocalSsd_Validate

-----------------------------------------------------------------------------
(* dataproc jobs delete *)

\* The number of Get requests WaitForResourceDeletion sends before it gives up.
MaxPolls == 3

JobIds == {"job-1", "job-2", "job-3"}

\* What the run does that can be seen from outside.
Prompted == [event |-> "PromptContinue", job |-> djId]
DeleteRequest == [event |-> "Delete", job |-> djId]
DeletionPoll == [event |-> "Get", job |-> djId]
DeletedLogEntry == [event |-> "DeletedResource", job |-> djId]

djInit ==
    /\ djId \in JobIds
    /\ djRemote \in SUBSET JobIds
    /\ djAnswer = None
    /\ djTrace = << >>
    /\ djRaised = None
    /\ djPc = "start"

\* raise in Run: the run ends with the error.
RaiseInDelete(error, message) ==
    /\ djRaised' = Some([error |-> error, message |-> message])
    /\ djPc' = "raised"

\* Delete_Prompt that goes on whatever the operator answers.
Delete_Prompt_AnswerIgnored ==
    /\ djPc = "start"
    /\ \E answer \in BOOLEAN : djAnswer' = Some(answer)
    /\ djTrace' = Append(djTrace, Prompted)
    /\ djPc' = "confirmed"
    /\ UNCHANGED <<djId, djRemote, djRaised>>
    /\ UNCHANGED djOthers

\* Run up to the prompt: the request is built, the operator is asked, and a
\* refusal raises.
Delete_Prompt ==
    /\ djPc = "start"
    /\ \E answer \in BOOLEAN :
          /\ djAnswer' = Some(answer)
          /\ IF answer THEN djPc' = "confirmed" /\ UNCHANGED djRaised
                       ELSE RaiseInDelete("ToolException", "Deletion aborted by user.")
    /\ djTrace' = Append(djTrace, Prompted)
    /\ UNCHANGED <<djId, djRemote>>
    /\ UNCHANGED djOthers

\* client.projects_jobs.Delete(request): the service refuses a job it does
\* not hold, and may refuse one it holds (a job that is still active).
Delete_Request ==
    /\ djPc = "confirmed"
    /\ djTrace' = Append(djTrace, DeleteRequest)
    /\ \/ /\ djId \in djRemote
          /\ djPc' = "waiting"
          /\ UNCHANGED djRaised
       \/ RaiseInDelete("HttpException", "Delete request failed")
    /\ UNCHANGED <<djId, djRemote, djAnswer>>
    /\ UNCHANGED djOthers

\* The Get requests the wait has sent.
Polls == Cardinality({i \in 1..Len(djTrace) : djTrace[i].event = "Get"})

\* One Get of util.WaitForResourceDeletion: the service has removed the job
\* by then or not; the wait ends when the job is gone and gives up after
\* MaxPolls requests.
Delete_Poll ==
    /\ djPc = "waiting"
    /\ Polls < MaxPolls
    /\ djTrace' = Append(djTrace, DeletionPoll)
    /\ \/ /\ djRemote' = djRemote \ {djId}
          /\ djPc' = "deleted"
          /\ UNCHANGED djRaised
       \/ /\ UNCHANGED djRemote
          /\ IF Polls + 1 < MaxPolls
               THEN UNCHANGED <<djPc, djRaised>>
               ELSE RaiseInDelete("ToolException", "Deleting resource timed out")
    /\ UNCHANGED <<djId, djAnswer>>
    /\ UNCHANGED djOthers

\* The log entry written without waiting for the deletion to complete.
Delete_Log_BeforeWait ==
    /\ djPc \in {"waiting", "deleted"}
    /\ djTrace' = Append(djTrace, DeletedLogEntry)
    /\ djPc' = "done"
    /\ UNCHANGED <<djId, djRemote, djAnswer, djRaised>>
    /\ UNCHANGED djOthers

\* log.DeletedResource(job_ref)
Delete_Log ==
    /\ djPc = "deleted"
    /\ djTrace' = Append(djTrace, DeletedLogEntry)
    /\ djPc' = "done"
    /\ UNCHANGED <<djId, djRemote, djAnswer, djRaised>>
    /\ UNCHANGED djOthers

djNext ==
    \/ Delete_Prompt
    \/ Delete_Request
    \/ Delete_Poll
    \/ Delete_Log

-----------------------------------------------------------------------------
(* ExpandAddressFlag *)

Regions == {"region-1", "region-2"}
AddressNames == {"addr-1", "addr-2"}
AddressErrors == {"404 not found", "403 forbidden"}

\* The values of --address that ipaddress.ip_address accepts.
IpLiterals == {"10.0.0.1", "2001:db8::1"}

\* The URI of an address resource, and what resources.Parse reads from it.
AddressUri ==
    "https://www.googleapis.com/compute/v1/projects/my-project/regions/region-2/addresses/addr-1"

AddressUriRef == [project |-> "my-project", region |-> "region-2", name |-> "addr-1"]

AddressInputs ==
    {None, Some("")} \cup {Some(s) : s \in IpLiterals \cup AddressNames \cup {AddressUri}}

\* The reserved address of each address resource.
ReservedIp ==
    [r \in Regions |->
        [n \in AddressNames |->
            IF r = "region-1" THEN (IF n = "addr-1" THEN "35.0.0.11" ELSE "35.0.0.12")
                              ELSE (IF n = "addr-1" THEN "35.0.0.21" ELSE "35.0.0.22")]]

AddressResources ==
    {[region |-> r, name |-> n, address |-> ReservedIp[r][n]] :
        r \in Regions, n \in AddressNames}

eaInit ==
    /\ eaAddress \in AddressInputs
    /\ eaRegion \in Regions
    /\ eaProject \in {None} \cup {Some(p) : p \in Projects}
    /\ eaRemote \in SUBSET AddressResources
    /\ eaRef = None
    /\ eaRequests = << >>
    /\ eaErrors = << >>
    /\ eaResult = None
    /\ eaRaised = None
    /\ eaPc = "start"

\* ExpandAddressFlag that looks up an IP literal like a name.
ExpandAddressFlag_Literal_LookedUp ==
    /\ eaPc = "start"
    /\ IF ~TruthyStr(eaAddress)
         THEN eaResult' = None /\ eaPc' = "returned"
         ELSE UNCHANGED eaResult /\ eaPc' = "lookup"
    /\ UNCHANGED <<eaAddress, eaRegion, eaProject, eaRemote, eaRef, eaRequests,
                   eaErrors, eaRaised>>
    /\ UNCHANGED eaOthers

\* ExpandAddressFlag up to the lookup: no address gives None, an IP literal
\* is returned as it is, any other value is looked up.
ExpandAddressFlag_Literal ==
    /\ eaPc = "start"
    /\ IF ~TruthyStr(eaAddress)
         THEN eaResult' = None /\ eaPc' = "returned"
       ELSE IF eaAddress[1] \in IpLiterals
         THEN eaResult' = eaAddress /\ eaPc' = "returned"
       ELSE UNCHANGED eaResult /\ eaPc' = "lookup"
    /\ UNCHANGED <<eaAddress, eaRegion, eaProject, eaRemote, eaRef, eaRequests,
                   eaErrors, eaRaised>>
    /\ UNCHANGED eaOthers

\* GetAddressRef: a URI names its own project and region; a name takes the
\* region handed in and the core/project property, which must be set.
GetAddressRef ==
    /\ eaPc = "lookup"
    /\ IF eaAddress[1] = AddressUri
         THEN eaRef' = Some(AddressUriRef) /\ eaPc' = "referenced" /\ UNCHANGED eaRaised
       ELSE IF eaProject = None
         THEN /\ eaRaised' = Some([error |-> "RequiredPropertyError", message |-> "",
                                    errors |-> << >>])
              /\ eaPc' = "raised"
              /\ UNCHANGED eaRef
       ELSE /\ eaRef' = Some([project |-> eaProject[1], region |-> eaRegion,
                               name |-> eaAddress[1]])
            /\ eaPc' = "referenced"
            /\ UNCHANGED eaRaised
    /\ UNCHANGED <<eaAddress, eaRegion, eaProject, eaRemote, eaRequests, eaErrors,
                   eaResult>>
    /\ UNCHANGED eaOthers

\* utils.RaiseToolException(errors, error_message): the exception raised,
\* which carries the message and the collected errors.
RaiseToolException(errors, error_message) ==
    [error |-> "ToolException", message |-> error_message, errors |-> errors]

\* The address resources the service holds under the reference.
Fetched(ref) == {a \in eaRemote : a.region = ref.region /\ a.name = ref.name}

\* _GetAddress that returns nothing when the request gave errors.
GetAddress_ErrorsDropped ==
    /\ eaPc = "referenced"
    /\ eaRequests' = Append(eaRequests, [method |-> "Get"] @@ eaRef[1])
    /\ \E errors \in SeqUpTo(AddressErrors, MaxErrors) :
          /\ errors = << >> => Fetched(eaRef[1]) # {}
          /\ eaErrors' = errors
          /\ IF errors # << >>
               THEN eaResult' = None /\ eaPc' = "returned"
               ELSE /\ \E a \in Fetched(eaRef[1]) : eaResult' = Some(a.address)
                    /\ eaPc' = "returned"
    /\ UNCHANGED <<eaAddress, eaRegion, eaProject, eaRemote, eaRef, eaRaised>>
    /\ UNCHANGED eaOthers

\* _GetAddress and the return of ExpandAddressFlag: one Get request; the
\* service answers with the resource, if it holds it, or with errors; errors
\* are raised, the address of the resource is returned.
GetAddress ==
    /\ eaPc = "referenced"
    /\ eaRequests' = Append(eaRequests, [method |-> "Get"] @@ eaRef[1])
    /\ \E errors \in SeqUpTo(AddressErrors, MaxErrors) :
          /\ errors = << >> => Fetched(eaRef[1]) # {}
          /\ eaErrors' = errors
          /\ IF errors # << >>
               THEN /\ eaRaised' = Some(RaiseToolException(
                                          errors, "Could not fetch address resource:"))
                    /\ eaPc' = "raised"
                    /\ UNCHANGED eaResult
               ELSE /\ \E a \in Fetched(eaRef[1]) : eaResult' = Some(a.address)
                    /\ eaPc' = "returned"
                    /\ UNCHANGED eaRaised
    /\ UNCHANGED <<eaAddress, eaRegion, eaProject, eaRemote, eaRef>>
    /\ UNCHANGED eaOthers

eaNext ==
    \/ ExpandAddressFlag_Literal
    \/ GetAddressRef
    \/ GetAddress

-----------------------------------------------------------------------------
(* Claims about InstanceZoneScopeLister, checked under SpecLister *)

\* The zone an instance lies in, read off its zone URL.
InstanceZone(instance) == instance.zone[4]

ReturnedZones == lsResult[1].ZONE

QuerySucceeded == lsPc = "returned" /\ lsErrors = << >>

\* C1: when the query returns no errors and instances in two or more zones,
\* the ZONE entry of the result holds exactly the zones of the matching
\* instances, one per match and in their order; no candidate is dropped
\* and none is added, so more than one candidate is left for the prompt.
C1_AmbiguousKeepsAllZones ==
    (QuerySucceeded /\ Cardinality({InstanceZone(i) : i \in Range(lsMatching)}) >= 2)
        => /\ lsResult # None
           /\ DOMAIN lsResult[1] = {"ZONE"}
           /\ Len(ReturnedZones) = Len(lsMatching)
           /\ \A k \in 1..Len(lsMatching) :
                  ReturnedZones[k] = [name |-> InstanceZone(lsMatching[k])]
           /\ Len(ReturnedZones) >= 2

C1_Witness ==
    /\ QuerySucceeded
    /\ Len(lsMatching) = 3
    /\ Len(ReturnedZones) = 3
    /\ Len(lsProjectZones) = 3

\* C2: when the query returns no errors and exactly one instance, the ZONE
\* entry holds exactly one element, named after the zone of that instance.
C2_SingleMatchResolves ==
    (QuerySucceeded /\ Len(lsMatching) = 1)
        => /\ lsResult # None
           /\ ReturnedZones = << [name |-> InstanceZone(lsMatching[1])] >>

C2_Witness ==
    /\ QuerySucceeded
    /\ Len(lsMatching) = 1
    /\ Len(lsProjectZones) = 3
    /\ ReturnedZones # << lsProjectZones[1] >>

MatchingZones == [k \in 1..Len(lsMatching) |-> [name |-> InstanceZone(lsMatching[k])]]

\* C26: a failed query takes precedence over its results: with a non-empty
\* error list the ZONE candidates are the zones of the project, whatever
\* instances the query returned; the candidates are the zones of the
\* matching instances, and not the zones of the project, only when the
\* error list is empty and an instance matched.
C26_ErrorsOverResults ==
    lsPc = "returned" =>
      /\ lsErrors # << >> => ReturnedZones = lsProjectZones
      /\ (ReturnedZones = MatchingZones /\ ReturnedZones # lsProjectZones)
            => (lsErrors = << >> /\ lsMatching # << >>)
      /\ (lsErrors = << >> /\ lsMatching # << >>) => ReturnedZones = MatchingZones

\* A failed query that returned instances in two of the three zones.
C26_Witness ==
    /\ lsPc = "returned"
    /\ Len(lsErrors) = 1
    /\ Len(lsMatching) = 2
    /\ Len(lsProjectZones) = 3
    /\ ReturnedZones = lsProjectZones
    /\ ReturnedZones # MatchingZones

-----------------------------------------------------------------------------
(* Claims about the disk validators, checked under SpecDisk *)

\* The --disk entries and --create-disk entries of the parsed arguments.
DiskEntries == IF args.disk = None THEN << >> ELSE args.disk[1]

CreateDiskEntriesGiven ==
    IF "create_disk" \in DOMAIN args /\ args.create_disk # None
      THEN args.create_disk[1] ELSE << >>

\* The entry gives `key` the value `value`.
Gives(entry, key, value) == key \in DOMAIN entry /\ entry[key] = value

NameOf(entry) == IF "name" \in DOMAIN entry THEN entry.name ELSE "None"

BootYesEntries == {i \in 1..Len(DiskEntries) : Gives(DiskEntries[i], "boot", "yes")}

\* C6: with more than one target instance ValidateDiskAccessModeFlags raises
\* if some --disk entry has mode=rw, and the error names such a disk; with
\* exactly one target instance it does not raise, whatever the entries.
C6_RwDiskOnlyForOneInstance ==
    called = "ValidateDiskAccessModeFlags" =>
      /\ (/\ Len(args.instance_names) > 1
          /\ \E i \in 1..Len(DiskEntries) : Gives(DiskEntries[i], "mode", "rw"))
           => /\ outcome.raised
              /\ outcome.message = MsgRwManyInstances
              /\ \E i \in 1..Len(DiskEntries) :
                    /\ Gives(DiskEntries[i], "mode", "rw")
                    /\ outcome.value = NameOf(DiskEntries[i])
      /\ Len(args.instance_names) = 1 => ~outcome.raised

C6_Witness ==
    /\ called = "ValidateDiskAccessModeFlags"
    /\ Len(args.instance_names) = 2
    /\ Len(DiskEntries) = 2
    /\ Gives(DiskEntries[1], "mode", "ro") /\ Gives(DiskEntries[1], "name", "disk-1")
    /\ Gives(DiskEntries[2], "mode", "rw") /\ Gives(DiskEntries[2], "name", "disk-2")
    /\ outcome.raised
    /\ outcome.value = "disk-2"

C6_WitnessSingle ==
    /\ called = "ValidateDiskAccessModeFlags"
    /\ Len(args.instance_names) = 1
    /\ Len(DiskEntries) = 2
    /\ Gives(DiskEntries[2], "mode", "rw")
    /\ ~outcome.raised

\* C7: a --disk entry with no mode key counts as read-write, so with more
\* than one target instance and such an entry ValidateDiskFlags raises.
C7_OmittedModeIsReadWrite ==
    (/\ called = "ValidateDiskFlags"
     /\ Len(args.instance_names) > 1
     /\ \E i \in 1..Len(DiskEntries) : "mode" \notin DOMAIN DiskEntries[i])
        => outcome.raised

\* C8: with more than one target instance (instance_names) a --create-disk
\* entry that gives a name is rejected by ValidateCreateDiskFlags and by
\* ValidateDiskFlags.
C8_CreateDiskNameOnlyForOneInstance ==
    (/\ called \in {"ValidateCreateDiskFlags", "ValidateDiskFlags"}
     /\ Len(args.instance_names) > 1
     /\ \E i \in 1..Len(CreateDiskEntriesGiven) :
           /\ "name" \in DOMAIN CreateDiskEntriesGiven[i]
           /\ CreateDiskEntriesGiven[i].name # "")
        => outcome.raised

\* C9, as claimed: two or more boot=yes entries give the 'two boot disks'
\* error, one boot=yes entry with --image set gives an error, and a return
\* without error means neither is the case.
C9_TwoBootDisksAsClaimed ==
    called = "ValidateDiskBootFlags" =>
      /\ Cardinality(BootYesEntries) >= 2
           => outcome.raised /\ outcome.message = MsgTwoBootDisks
      /\ (Cardinality(BootYesEntries) = 1 /\ args.image # None) => outcome.raised
      /\ ~outcome.raised
           => /\ Cardinality(BootYesEntries) <= 1
              /\ ~(BootYesEntries # {} /\ args.image # None)

\* The entry gives boot a value that is neither empty nor yes nor no.
BootValueRejected(entry) ==
    "boot" \in DOMAIN entry /\ entry.boot \notin {"", "yes", "no"}

\* The second of the boot=yes entries.
SecondBootYes ==
    CHOOSE i \in BootYesEntries : Cardinality({j \in BootYesEntries : j < i}) = 1

\* C9, amended: two or more boot=yes entries make ValidateDiskBootFlags
\* raise, the 'two boot disks' error unless an entry before the second
\* boot=yes entry has a rejected boot value, and then the error of that
\* value; one boot=yes entry with a non-empty --image makes it raise; a
\* return without error means at most one boot=yes entry and not both a
\* boot=yes entry and a non-empty --image.
C9_TwoBootDisks ==
    called = "ValidateDiskBootFlags" =>
      /\ Cardinality(BootYesEntries) >= 2
           => /\ outcome.raised
              /\ IF \E j \in 1..SecondBootYes : BootValueRejected(DiskEntries[j])
                   THEN outcome.message = MsgBootInvalid
                   ELSE outcome.message = MsgTwoBootDisks
      /\ (Cardinality(BootYesEntries) = 1 /\ args.image \notin {None, Some("")})
           => outcome.raised
      /\ ~outcome.raised
           => /\ Cardinality(BootYesEntries) <= 1
              /\ ~(BootYesEntries # {} /\ args.image \notin {None, Some("")})

C9_Witness ==
    /\ called = "ValidateDiskBootFlags"
    /\ Len(DiskEntries) = 3
    /\ BootYesEntries = {1, 3}
    /\ Gives(DiskEntries[2], "boot", "no")
    /\ outcome.message = MsgTwoBootDisks

C9_WitnessImage ==
    /\ called = "ValidateDiskBootFlags"
    /\ BootYesEntries = {2}
    /\ args.image = Some("debian-9")
    /\ outcome.message = MsgBootDiskAndImage

\* The flags that apply to a new boot disk only.
NewBootDiskStringFlags ==
    {"boot_disk_device_name", "boot_disk_type"}
        \cup (IF enable_kms THEN KmsFlags ELSE {})

DiskEnumerations ==
    [mode |-> {"ro", "rw"}, boot |-> {"yes", "no"}] @@ ("auto-delete" :> {"yes", "no"})

\* Every enumerated key the entry gives has a value of its allowed set.
EnumeratedKeysAllowed(entry, keys) ==
    \A k \in keys \cap DOMAIN entry : entry[k] \in DiskEnumerations[k]

\* C11: when ValidateDiskFlags returns without error, every --disk entry
\* that gives mode, boot or auto-delete and every --create-disk entry that
\* gives mode gives a value of the key's allowed set; the empty string is
\* not such a value.
C11_EnumeratedValuesAllowed ==
    (called = "ValidateDiskFlags" /\ ~outcome.raised) =>
      /\ \A i \in 1..Len(DiskEntries) :
            EnumeratedKeysAllowed(DiskEntries[i], {"mode", "boot", "auto-delete"})
      /\ \A i \in 1..Len(CreateDiskEntriesGiven) :
            EnumeratedKeysAllowed(CreateDiskEntriesGiven[i], {"mode"})

\* What the text of each enumeration error names: the flag, the key and the
\* allowed values.
EnumerationErrors ==
    (MsgModeInvalid :> [flag |-> "--disk", key |-> "mode", allowed |-> {"rw", "ro"}])
    @@ (MsgAutoDeleteInvalid :>
          [flag |-> "--disk", key |-> "auto-delete", allowed |-> {"yes", "no"}])
    @@ (MsgBootInvalid :> [flag |-> "--disk", key |-> "boot", allowed |-> {"yes", "no"}])
    @@ (MsgLocalSsdInterface :>
          [flag |-> "--local-ssd", key |-> "interface", allowed |-> {"NVME", "SCSI"}])

\* The flag whose entries the validator last called reads, and those entries.
FlagRead ==
    IF called = "ValidateCreateDiskFlags" THEN "--create-disk"
    ELSE IF called = "ValidateLocalSsdFlags" THEN "--local-ssd"
    ELSE "--disk"

EntriesRead ==
    IF called = "ValidateCreateDiskFlags" THEN CreateDiskEntriesGiven
    ELSE IF called = "ValidateLocalSsdFlags" THEN OrEmptyList(args.local_ssd)
    ELSE DiskEntries

\* C12: an error raised for a value outside an enumeration (mode, boot,
\* auto-delete of --disk, mode of --create-disk, interface of --local-ssd)
\* names the flag the value was given in, the value, and the allowed set.
C12_EnumerationErrorNamesFlag ==
    (/\ called \in {"ValidateDiskCommonFlags", "ValidateDiskBootFlags",
                    "ValidateCreateDiskFlags", "ValidateLocalSsdFlags"}
     /\ outcome.raised
     /\ outcome.message \in DOMAIN EnumerationErrors)
       => LET named == EnumerationErrors[outcome.message]
          IN /\ named.flag = FlagRead
             /\ \E i \in 1..Len(EntriesRead) :
                   Gives(EntriesRead[i], named.key, outcome.value)
             /\ outcome.value \notin named.allowed
             /\ named.allowed =
                   IF named.key = "interface" THEN Range(LOCAL_SSD_INTERFACES)
                   ELSE DiskEnumerations[named.key]

\* The same for the validators of --disk and --local-ssd alone.
C12_DiskAndLocalSsdErrorsNameFlag ==
    called # "ValidateCreateDiskFlags" => C12_EnumerationErrorNamesFlag

\* --network-interface is given and no entry of it has both address and
\* no-address.
NicEntriesConsistent ==
    /\ args.network_interface # None
    /\ \A i \in 1..Len(args.network_interface[1]) :
          ~({"address", "no-address"} \subseteq DOMAIN args.network_interface[1][i])

\* The flags the conflicting-arguments error names after its first two parts.
FlagsNamed == {outcome.arguments[i] : i \in 3..Len(outcome.arguments)}

C14_NicExcludesFiveFlags ==
    (/\ called = "ValidateNicFlags"
     /\ args.network_interface # None
     /\ \E arg \in DOMAIN FlagOfArg : args[arg] \notin {None, Some("")})
       => outcome.raised

\* C15: ValidateServiceAccountAndScopeArgs raises the required-argument
\* error naming --no-scopes when --no-service-account is set and --no-scopes
\* is not, and in no other case.
C15_NoScopesRequired ==
    called = "ValidateServiceAccountAndScopeArgs" =>
      ((/\ outcome.raised
        /\ outcome.error = "RequiredArgumentException"
        /\ outcome.parameter_name = "--no-scopes")
       <=> (args.no_service_account /\ ~args.no_scopes))

C15_Witness ==
    /\ called = "ValidateServiceAccountAndScopeArgs"
    /\ args.no_service_account
    /\ ~args.no_scopes
    /\ args.scopes = Some(<<"compute-rw", "">>)
    /\ outcome.error = "RequiredArgumentException"
    /\ outcome.parameter_name = "--no-scopes"

\* Without --no-service-account an empty scope gives another error.
C15_WitnessOtherError ==
    /\ called = "ValidateServiceAccountAndScopeArgs"
    /\ ~args.no_service_account
    /\ outcome.error = "InvalidArgumentException"

\* The order in which ValidateDiskFlags is to call its validators.
DiskValidatorOrder ==
    <<"ValidateDiskCommonFlags", "ValidateDiskAccessModeFlags",
      "ValidateDiskBootFlags", "ValidateCreateDiskFlags">>

\* The entry breaks a rule of ValidateDiskCommonFlags.
BreaksCommonRule(entry) ==
    \/ "name" \notin DOMAIN entry
    \/ entry.name = ""
    \/ \E k \in {"mode", "auto-delete"} \cap DOMAIN entry :
          entry[k] \notin DiskEnumerations[k] \cup {""}

\* The entry breaks the rule of ValidateDiskAccessModeFlags.
BreaksAccessRule(entry) ==
    Len(args.instance_names) > 1 /\ Gives(entry, "mode", "rw")

\* The first --disk entry that satisfies Breaks, 0 if there is none.
FirstEntry(Breaks(_)) ==
    IF \E i \in 1..Len(DiskEntries) : Breaks(DiskEntries[i])
      THEN CHOOSE i \in 1..Len(DiskEntries) :
             /\ Breaks(DiskEntries[i])
             /\ \A j \in 1..(i - 1) : ~Breaks(DiskEntries[j])
      ELSE 0

\* C19: ValidateDiskFlags runs the common, access-mode, boot and create-disk
\* validators in that order up to the first that raises and reports that
\* validator's error, no validator after it being run; the error of the
\* common and of the access-mode validator is that of the first --disk entry
\* that breaks a rule of the validator.
C19_FirstViolationReported ==
    called = "ValidateDiskFlags" =>
      /\ ran # << >>
      /\ ran = SubSeq(DiskValidatorOrder, 1, Len(ran))
      /\ \A i \in 1..(Len(ran) - 1) : ~DiskValidator(ran[i], args, enable_kms).raised
      /\ outcome = DiskValidator(ran[Len(ran)], args, enable_kms)
      /\ ~outcome.raised => ran = DiskValidatorOrder
      /\ FirstEntry(BreaksCommonRule) # 0
           => /\ ran = <<"ValidateDiskCommonFlags">>
              /\ outcome = DiskCommonEntry(DiskEntries[FirstEntry(BreaksCommonRule)])
              /\ outcome.raised
      /\ (FirstEntry(BreaksCommonRule) = 0 /\ FirstEntry(BreaksAccessRule) # 0)
           => /\ ran = <<"ValidateDiskCommonFlags", "ValidateDiskAccessModeFlags">>
              /\ outcome.message = MsgRwManyInstances
              /\ outcome.value = NameOf(DiskEntries[FirstEntry(BreaksAccessRule)])

\* Three validators have a rule broken; the access-mode error is reported.
C19_Witness ==
    /\ called = "ValidateDiskFlags"
    /\ DiskEntries = <<[name |-> "disk-1", boot |-> "maybe"],
                       [name |-> "disk-1", mode |-> "rw", boot |-> "maybe"]>>
    /\ CreateDiskEntriesGiven = <<[mode |-> "rx"]>>
    /\ ran = <<"ValidateDiskCommonFlags", "ValidateDiskAccessModeFlags">>
    /\ outcome.message = MsgRwManyInstances

\* Two entries break a rule of the common validator; the first is reported.
C19_WitnessFirstEntry ==
    /\ called = "ValidateDiskFlags"
    /\ DiskEntries = <<[name |-> "disk-1", mode |-> "rx"], [mode |-> "rw"]>>
    /\ ran = <<"ValidateDiskCommonFlags">>
    /\ outcome.message = MsgModeInvalid

\* What the validator `name` does with the parsed arguments a, enable_kms
\* being handed to the two validators that take it.
ValidatorOutcome(name, a, kms) ==
    CASE name = "ValidateDiskFlags" -> ValidateDiskFlags(a, kms)
      [] name \in Range(DiskValidatorOrder) -> DiskValidator(name, a, kms)
      [] name = "ValidateNicFlags" -> ValidateNicFlags(a)
      [] name = "ValidateLocalSsdFlags" -> ValidateLocalSsdFlags(a)
      [] name = "ValidateServiceAccountAndScopeArgs" -> ValidateServiceAccountAndScopeArgs(a)
      [] name = "ValidatePublicDnsFlags" -> ValidatePublicDnsFlags(a)
      [] name = "ValidatePublicPtrFlags" -> ValidatePublicPtrFlags(a)
      [] name = "ValidateAcceleratorArgs" -> ValidateAcceleratorArgs(a)
      [] name = "ValidateNetworkTierArgs" -> ValidateNetworkTierArgs(a)

\* The values of enable_kms a command can hand over with the arguments a:
\* TRUE only when a holds the KMS flags.
KmsChoices(a) == IF KmsFlags \subseteq DOMAIN a THEN BOOLEAN ELSE {FALSE}

C20_WitnessRaised ==
    /\ called = "ValidateNetworkTierArgs"
    /\ args.network_tier = Some("GOLD")
    /\ outcome.raised

\* The entry gives no name, or an empty one.
Nameless(entry) == "name" \notin DOMAIN entry \/ entry.name = ""

NameMissingError == [raised |-> TRUE, error |-> "ToolException",
                     message |-> MsgNameMissing, value |-> ""]

\* Absent or empty, --disk never makes ValidateDiskCommonFlags raise.
NoDiskNeverRaises ==
    (called = "ValidateDiskCommonFlags" /\ DiskEntries = << >>) => ~outcome.raised

\* C30, as claimed: ValidateDiskCommonFlags rejects every --disk entry
\* without a name, or with an empty one, with the error that states the
\* form of --disk; absent or empty, --disk never makes it raise.
C30_NamelessDiskRejectedAsClaimed ==
    /\ NoDiskNeverRaises
    /\ (called = "ValidateDiskCommonFlags"
         /\ \E i \in 1..Len(DiskEntries) : Nameless(DiskEntries[i]))
        => outcome = NameMissingError

\* C30, amended: with a --disk entry without a name, or with an empty one,
\* ValidateDiskCommonFlags raises; the entries are checked in order and the
\* name of an entry before its mode and auto-delete, so the error states the
\* form of --disk unless an entry before the first nameless one gives a mode
\* or auto-delete that is not allowed, and then the error is that entry's;
\* absent or empty, --disk never makes it raise.
C30_NamelessDiskRejected ==
    /\ NoDiskNeverRaises
    /\ (called = "ValidateDiskCommonFlags"
         /\ \E i \in 1..Len(DiskEntries) : Nameless(DiskEntries[i]))
        => /\ outcome.raised
           /\ IF Nameless(DiskEntries[FirstEntry(BreaksCommonRule)])
                THEN outcome = NameMissingError
                ELSE /\ outcome.message \in {MsgModeInvalid, MsgAutoDeleteInvalid}
                     /\ outcome.value \in
                           {DiskEntries[FirstEntry(BreaksCommonRule)][k] :
                              k \in {"mode", "auto-delete"}
                                     \cap DOMAIN DiskEntries[FirstEntry(BreaksCommonRule)]}

\* The one entry has an empty name, and a mode and an auto-delete that are
\* not allowed: the error is the one of the name.
C30_Witness ==
    /\ called = "ValidateDiskCommonFlags"
    /\ DiskEntries = <<[name |-> "", mode |-> "rx"] @@ ("auto-delete" :> "always")>>
    /\ outcome = NameMissingError

\* A nameless entry after one with an auto-delete that is not allowed.
C30_WitnessLaterEntry ==
    /\ called = "ValidateDiskCommonFlags"
    /\ Len(DiskEntries) = 2
    /\ ~Nameless(DiskEntries[1])
    /\ Nameless(DiskEntries[2])
    /\ outcome.message = MsgAutoDeleteInvalid

C30_WitnessEmptyList ==
    /\ called = "ValidateDiskCommonFlags"
    /\ args.disk = Some(<< >>)
    /\ ~outcome.raised

\* The --local-ssd entries of the arguments.
LocalSsdEntriesGiven ==
    IF "local_ssd" \in DOMAIN args /\ args.local_ssd # None
      THEN args.local_ssd[1] ELSE << >>

\* The entry gives no interface, or one of LOCAL_SSD_INTERFACES.
InterfaceAllowed(local_ssd) ==
    "interface" \in DOMAIN local_ssd =>
        local_ssd.interface \in {""} \cup Range(LOCAL_SSD_INTERFACES)

-----------------------------------------------------------------------------
(* Claims about --local-ssd sizes, checked under SpecLocalSsd *)

\* The sizes given, in MB.
SizesGiven ==
    {ParseBinarySize(ssInput[i].size) :
        i \in {j \in 1..Len(ssInput) : "size" \in DOMAIN ssInput[j]}}

GB375 == 375 * 1024

\* C16: an input with a size below 375GB, or with a size that is not a
\* multiple of 375GB, never passes validation; a size below 375GB is
\* rejected by the flag's parser and a size from 375GB on that is not a
\* multiple by ValidateLocalSsdFlags; inputs that give 375GB or 750GB and
\* no interface are never rejected.
C16_LocalSsdSizeRejected ==
    /\ ssPc = "validated" => \A s \in SizesGiven : s >= GB375 /\ s % GB375 = 0
    /\ (ssPc \notin {"idle", "start"} /\ \E s \in SizesGiven : s < GB375)
         => ssPc = "rejected" /\ ssOutcome.error = "ArgumentTypeError"
    /\ (/\ ssPc \notin {"idle", "start", "parsed"}
        /\ \A s \in SizesGiven : s >= GB375
        /\ \E s \in SizesGiven : s % GB375 # 0)
         => /\ ssPc = "rejected"
            /\ ssOutcome.error = "InvalidArgumentException"
    /\ (/\ SizesGiven \subseteq {375 * 1024, 750 * 1024}
        /\ \A i \in 1..Len(ssInput) : "interface" \notin DOMAIN ssInput[i])
         => ssPc # "rejected"

\* 370GB is rejected by the parser.
C16_Witness ==
    /\ ssInput = <<[size |-> [amount |-> 370, unit |-> "GB"]]>>
    /\ ssPc = "rejected"
    /\ ssOutcome.error = "ArgumentTypeError"

\* 400GB is rejected by ValidateLocalSsdFlags.
C16_WitnessGranularity ==
    /\ ssInput = <<[size |-> [amount |-> 400, unit |-> "GB"]]>>
    /\ ssPc = "rejected"
    /\ ssOutcome.error = "InvalidArgumentException"
    /\ ssOutcome.parameter_name = "--local-ssd:size"

\* 750GB passes both.
C16_WitnessAccepted ==
    /\ ssInput = <<[size |-> [amount |-> 750, unit |-> "GB"]]>>
    /\ ssPc = "validated"

-----------------------------------------------------------------------------
(* Claims about dataproc jobs delete, checked under SpecJobsDelete *)

\* The positions of the trace at which `event` happened.
Happened(event) == {i \in 1..Len(djTrace) : djTrace[i].event = event}

\* C17: a Delete request is sent only after the operator has confirmed the
\* prompt; when the operator declines, the run raises 'Deletion aborted by
\* user.' and holds no Delete request, no poll of the wait and no 'deleted'
\* log entry, then and ever after.
C17_DeleteOnlyAfterConfirmation ==
    /\ \A i \in Happened("Delete") :
          /\ djAnswer = Some(TRUE)
          /\ \E j \in Happened("PromptContinue") : j < i
    /\ djAnswer = Some(FALSE)
         => /\ djRaised = Some([error |-> "ToolException",
                                message |-> "Deletion aborted by user."])
            /\ djPc = "raised"
            /\ Happened("Delete") = {}
            /\ Happened("Get") = {}
            /\ Happened("DeletedResource") = {}

C17_Witness ==
    /\ djAnswer = Some(FALSE)
    /\ djId \in djRemote
    /\ djPc = "raised"
    /\ djTrace = <<Prompted>>

C17_WitnessConfirmed ==
    /\ djAnswer = Some(TRUE)
    /\ djPc = "done"
    /\ Happened("Delete") = {2}

\* Every `first` event of the trace comes before every `second` event.
Before(first, second) ==
    \A i \in Happened(first), j \in Happened(second) : i < j

\* C27: the steps of the run come in the order confirm, Delete request,
\* wait for the deletion, log: the 'deleted' log entry is written once, as
\* the last step, after a Get of the wait has found the job gone; a run in
\* which the Delete request or the wait raises never writes it.
C27_LogAfterWait ==
    /\ Before("PromptContinue", "Delete")
    /\ Before("Delete", "Get")
    /\ Before("Get", "DeletedResource")
    /\ Happened("DeletedResource") # {} =>
          /\ Happened("DeletedResource") = {Len(djTrace)}
          /\ Happened("PromptContinue") # {}
          /\ Happened("Delete") # {}
          /\ djTrace[Len(djTrace) - 1] = DeletionPoll
          /\ djId \notin djRemote
          /\ djRaised = None
    /\ djRaised # None => Happened("DeletedResource") = {}

\* The wait gave up after its last Get: nothing is logged.
C27_Witness ==
    /\ djRaised = Some([error |-> "ToolException", message |-> "Deleting resource timed out"])
    /\ Cardinality(Happened("Get")) = MaxPolls
    /\ Happened("DeletedResource") = {}
    /\ djId \in djRemote

\* The job was gone at the second Get, and the entry is written.
C27_WitnessLogged ==
    /\ djPc = "done"
    /\ djTrace = <<Prompted, DeleteRequest, DeletionPoll, DeletionPoll, DeletedLogEntry>>

C27_WitnessDeleteRefused ==
    /\ djRaised = Some([error |-> "HttpException", message |-> "Delete request failed"])
    /\ djTrace = <<Prompted, DeleteRequest>>

-----------------------------------------------------------------------------
(* Claims about ExpandAddressFlag, checked under SpecAddress *)

\* C18: when the lookup of a named --address has sent its Get request and
\* the request gave errors, ExpandAddressFlag raises an error that carries
\* the collected errors and returns nothing.
C18_LookupErrorsRaise ==
    (eaRequests # << >> /\ eaErrors # << >>)
      => /\ eaPc = "raised"
         /\ eaRaised # None
         /\ eaRaised[1].error = "ToolException"
         /\ eaRaised[1].errors = eaErrors
         /\ eaResult = None

C18_Witness ==
    /\ eaAddress = Some("addr-2")
    /\ Len(eaRequests) = 1
    /\ eaErrors = <<"404 not found", "403 forbidden">>
    /\ eaPc = "raised"
    /\ eaRaised[1].errors = eaErrors

\* The call has returned or raised.
AddressFinished == eaPc \in {"returned", "raised"}

\* --address is a value that is neither empty nor an IP literal.
AddressToLookUp == TruthyStr(eaAddress) /\ eaAddress[1] \notin IpLiterals

\* No request for no address and for an IP literal, at any time.
NoRequestWithoutLookup ==
    /\ ~TruthyStr(eaAddress) =>
          /\ eaRequests = << >>
          /\ AddressFinished => (eaPc = "returned" /\ eaResult = None)
    /\ (TruthyStr(eaAddress) /\ eaAddress[1] \in IpLiterals) =>
          /\ eaRequests = << >>
          /\ AddressFinished => (eaPc = "returned" /\ eaResult = eaAddress)

\* C28, as claimed: no request for no address and for an IP literal; for
\* any other value exactly one Get request, in the region handed in, and the
\* address field of the fetched resource returned.
C28_OneLookupAsClaimed ==
    /\ NoRequestWithoutLookup
    /\ (AddressToLookUp /\ AddressFinished) =>
          /\ Len(eaRequests) = 1
          /\ eaRequests[1].method = "Get"
          /\ eaRequests[1].region = eaRegion
          /\ eaPc = "returned"
          /\ eaResult = Some(ReservedIp[eaRequests[1].region][eaRequests[1].name])

\* The reference a value to look up resolves to, when it does.
ExpectedRef ==
    IF eaAddress[1] = AddressUri THEN AddressUriRef
    ELSE [project |-> eaProject[1], region |-> eaRegion, name |-> eaAddress[1]]

\* C28, amended: no request for no address (None returned) and for an IP
\* literal (the input returned). Any other value is resolved to a reference:
\* a name in the region handed in and the core project, a URI in the project
\* and region it names; when a name is given and the project is unset the
\* call raises with no request sent. Otherwise exactly one Get request is
\* sent, for that reference; with no errors the address field of the
\* fetched resource is returned, with errors the call raises.
C28_OneLookup ==
    /\ NoRequestWithoutLookup
    /\ Len(eaRequests) <= 1
    /\ (AddressToLookUp /\ AddressFinished) =>
          IF eaAddress[1] # AddressUri /\ eaProject = None
            THEN /\ eaRequests = << >>
                 /\ eaPc = "raised"
                 /\ eaRaised[1].error = "RequiredPropertyError"
            ELSE /\ eaRequests = <<[method |-> "Get"] @@ ExpectedRef>>
                 /\ IF eaErrors = << >>
                      THEN /\ eaPc = "returned"
                           /\ eaResult = Some(ReservedIp[ExpectedRef.region][ExpectedRef.name])
                      ELSE /\ eaPc = "raised"
                           /\ eaResult = None

\* A name looked up in the region handed in.
C28_Witness ==
    /\ eaAddress = Some("addr-2")
    /\ eaRegion = "region-2"
    /\ eaPc = "returned"
    /\ Len(eaRequests) = 1
    /\ eaRequests[1].region = "region-2"
    /\ eaResult = Some("35.0.0.22")

\* A URI of region-2 looked up in a call for region-1.
C28_WitnessUri ==
    /\ eaAddress = Some(AddressUri)
    /\ eaRegion = "region-1"
    /\ eaPc = "returned"
    /\ eaRequests[1].region = "region-2"
    /\ eaResult = Some("35.0.0.21")

C28_WitnessLiteral ==
    /\ eaAddress = Some("2001:db8::1")
    /\ eaPc = "returned"
    /\ eaResult = eaAddress
    /\ eaRequests = << >>

C28_WitnessNoProject ==
    /\ eaAddress = Some("addr-1")
    /\ eaProject = None
    /\ eaPc = "raised"
    /\ eaRequests = << >>

-----------------------------------------------------------------------------
(* compute routers update *)

MaxRanges == 1

AdvertiseModes == {"DEFAULT", "CUSTOM"}
AdvertisedGroups == {"ALL_SUBNETS"}
IpRanges == {"10.0.0.0/8", "192.168.0.0/16"}

GroupLists == DistinctSeqUpTo(AdvertisedGroups, 1)
RangeLists == DistinctSeqUpTo(IpRanges, MaxRanges)

\* messages.RouterAdvertisedPrefix(prefix=...)
AdvertisedPrefix(ip_range) == [prefix |-> ip_range, description |-> ""]

\* router_utils.ParseIpRanges
ParseIpRanges(ip_ranges) == [i \in 1..Len(ip_ranges) |-> AdvertisedPrefix(ip_ranges[i])]

\* The routers the service may hold: custom advertisements need custom mode.
Routers ==
    {[bgp |-> [advertiseMode |-> m, advertisedGroups |-> g, advertisedPrefixs |-> ParseIpRanges(r)]] :
        m \in {"CUSTOM"}, g \in GroupLists, r \in DistinctSeqUpTo(IpRanges, MaxRanges + 1)}
    \cup {[bgp |-> [advertiseMode |-> "DEFAULT", advertisedGroups |-> << >>,
                    advertisedPrefixs |-> << >>]]}

NoAdvertisementArgs ==
    [advertisement_mode |-> None,
     set_advertisement_groups |-> None,
     set_advertisement_ranges |-> None,
     add_advertisement_groups |-> None,
     remove_advertisement_groups |-> None,
     add_advertisement_ranges |-> None,
     remove_advertisement_ranges |-> None]

\* Runs with replace flags, runs with incremental flags, and runs with one
\* flag of each kind.
ReplaceArgs ==
    {[NoAdvertisementArgs EXCEPT !.advertisement_mode = m,
                                 !.set_advertisement_groups = g,
                                 !.set_advertisement_ranges = r] :
        m \in {None} \cup {Some(x) : x \in AdvertiseModes},
        g \in {None} \cup {Some(l) : l \in GroupLists},
        r \in {None} \cup {Some(l) : l \in RangeLists}}

IncrementalArgs ==
    {[NoAdvertisementArgs EXCEPT !.add_advertisement_groups = ag,
                                 !.remove_advertisement_groups = rg,
                                 !.add_advertisement_ranges = ar,
                                 !.remove_advertisement_ranges = rr] :
        ag \in {None} \cup {Some(l) : l \in GroupLists},
        rg \in {None} \cup {Some(l) : l \in GroupLists},
        ar \in {None} \cup {Some(l) : l \in RangeLists},
        rr \in {None} \cup {Some(l) : l \in RangeLists}}

MixedArgs ==
    {[NoAdvertisementArgs EXCEPT !.advertisement_mode = m,
                                 !.set_advertisement_ranges = r,
                                 !.add_advertisement_groups = ag,
                                 !.remove_advertisement_ranges = rr] :
        m \in {None, Some("CUSTOM")},
        r \in {None, Some(<<"10.0.0.0/8">>)},
        ag \in {None, Some(<<"ALL_SUBNETS">>)},
        rr \in {None, Some(<<"10.0.0.0/8">>)}}

\* router_utils.HasReplaceAdvertisementFlags
HasReplaceAdvertisementFlags(a) ==
    \/ TruthyStr(a.advertisement_mode)
    \/ a.set_advertisement_groups # None
    \/ a.set_advertisement_ranges # None

\* router_utils.HasIncrementalAdvertisementFlags
HasIncrementalAdvertisementFlags(a) ==
    \/ TruthyList(a.add_advertisement_groups)
    \/ TruthyList(a.remove_advertisement_groups)
    \/ TruthyList(a.add_advertisement_ranges)
    \/ TruthyList(a.remove_advertisement_ranges)

\* router_utils.CheckIncompatibleFlagsOrRaise: replace and incremental flags
\* are mutually exclusive.
IncompatibleFlags(a) ==
    HasReplaceAdvertisementFlags(a) /\ HasIncrementalAdvertisementFlags(a)

\* router_utils.ParseAdvertisements: mode, groups and prefixes of the replace
\* flags (None for a flag not given); default mode takes no custom
\* advertisement and clears the router's.
ParseAdvertisements(a) ==
    LET mode == a.advertisement_mode
        groups == a.set_advertisement_groups
        prefixes == IF a.set_advertisement_ranges = None THEN None
                    ELSE Some(ParseIpRanges(a.set_advertisement_ranges[1]))
    IN IF mode = Some("DEFAULT") /\ (TruthyList(groups) \/ TruthyList(prefixes))
         THEN [raised |-> TRUE, mode |-> mode, groups |-> groups, prefixes |-> prefixes]
       ELSE IF mode = Some("DEFAULT")
         THEN [raised |-> FALSE, mode |-> mode, groups |-> Some(<< >>), prefixes |-> Some(<< >>)]
       ELSE [raised |-> FALSE, mode |-> mode, groups |-> groups, prefixes |-> prefixes]

\* router_utils.PromptIfSwitchToDefaultMode prompts in this case.
SwitchToDefaultMode(existing_mode, new_mode) ==
    existing_mode = "CUSTOM" /\ new_mode = Some("DEFAULT")

\* The loop over attrs: setattr(replacement.bgp, attr, value) for the values
\* that are not None.
SetAttrs(bgp, parsed) ==
    [advertiseMode |-> IF parsed.mode # None THEN parsed.mode[1] ELSE bgp.advertiseMode,
     advertisedGroups |-> IF parsed.groups # None THEN parsed.groups[1]
                          ELSE bgp.advertisedGroups,
     advertisedPrefixs |-> IF parsed.prefixes # None THEN parsed.prefixes[1]
                           ELSE bgp.advertisedPrefixs]

\* router_utils.ValidateCustomMode raises unless the mode is CUSTOM.
CustomModeError(bgp) == bgp.advertiseMode # "CUSTOM"

\* The incremental edits of Run, in the order of the code: add groups,
\* remove groups, add ranges, remove ranges. A removal of what is not
\* advertised raises.
IncrementalEdit(bgp, a) ==
    LET add_groups == OrEmptyList(a.add_advertisement_groups)
        remove_groups == OrEmptyList(a.remove_advertisement_groups)
        add_ranges == OrEmptyList(a.add_advertisement_ranges)
        remove_ranges == OrEmptyList(a.remove_advertisement_ranges)
        groups1 == bgp.advertisedGroups \o add_groups
        groups2 == FilterSeq(groups1, Range(groups1) \ Range(remove_groups))
        prefixes1 == bgp.advertisedPrefixs \o ParseIpRanges(add_ranges)
        prefixes2 == FilterSeq(prefixes1,
                               {x \in Range(prefixes1) : x.prefix \notin Range(remove_ranges)})
    IN IF ~(Range(remove_groups) \subseteq Range(groups1))
         THEN [raised |-> Some("GroupNotFoundError"), bgp |-> bgp]
       ELSE IF ~(Range(remove_ranges) \subseteq {x.prefix : x \in Range(prefixes1)})
         THEN [raised |-> Some("IpRangeNotFoundError"), bgp |-> bgp]
       ELSE [raised |-> None,
             bgp |-> [bgp EXCEPT !.advertisedGroups = groups2,
                                 !.advertisedPrefixs = prefixes2]]

\* cleared_fields that names the groups alone.
ClearedFields_GroupsOnly(bgp) ==
    IF bgp.advertisedGroups = << >> THEN <<"bgp.advertisedGroups">> ELSE << >>

\* cleared_fields of Run.
ClearedFields(bgp) ==
    (IF bgp.advertisedGroups = << >> THEN <<"bgp.advertisedGroups">> ELSE << >>)
    \o (IF bgp.advertisedPrefixs = << >> THEN <<"bgp.advertisedPrefixs">> ELSE << >>)

\* The router after a Patch: an empty list of the body is sent, and clears
\* the field, only when the field is among the included fields.
Patched(router, body, cleared) ==
    [bgp |->
      [advertiseMode |-> body.bgp.advertiseMode,
       advertisedGroups |->
          IF body.bgp.advertisedGroups # << >> THEN body.bgp.advertisedGroups
          ELSE IF "bgp.advertisedGroups" \in Range(cleared) THEN << >>
          ELSE router.bgp.advertisedGroups,
       advertisedPrefixs |->
          IF body.bgp.advertisedPrefixs # << >> THEN body.bgp.advertisedPrefixs
          ELSE IF "bgp.advertisedPrefixs" \in Range(cleared) THEN << >>
          ELSE router.bgp.advertisedPrefixs]]

GetRequest == [method |-> "Get", cleared_fields |-> << >>]
PatchRequest(cleared) == [method |-> "Patch", cleared_fields |-> cleared]

rtInit ==
    /\ rtArgs \in ReplaceArgs \cup IncrementalArgs \cup MixedArgs
    /\ rtRemote \in Routers
    /\ rtExisting = None
    /\ rtReplacement = None
    /\ rtCalls = << >>
    /\ rtRaised = None
    /\ rtPc = "start"

\* The run ends with `error` raised.
RaiseInRun(error) ==
    /\ rtRaised' = Some(error)
    /\ rtPc' = "raised"

\* Update_CheckIncompatibleFlags placed after the Get request.
Update_CheckIncompatibleFlags_AfterGet ==
    /\ rtPc = "start"
    /\ rtCalls' = Append(rtCalls, [method |-> "Get", cleared_fields |-> << >>])
    /\ IF HasReplaceAdvertisementFlags(rtArgs) /\ HasIncrementalAdvertisementFlags(rtArgs)
         THEN RaiseInRun("IncompatibleFlagsError")
         ELSE rtPc' = "checked" /\ UNCHANGED rtRaised
    /\ UNCHANGED <<rtArgs, rtRemote, rtExisting, rtReplacement>>
    /\ UNCHANGED rtOthers

\* Run, line 39: router_utils.CheckIncompatibleFlagsOrRaise(args).
Update_CheckIncompatibleFlags ==
    /\ rtPc = "start"
    /\ IF IncompatibleFlags(rtArgs)
         THEN RaiseInRun("IncompatibleFlagsError")
         ELSE rtPc' = "checked" /\ UNCHANGED rtRaised
    /\ UNCHANGED <<rtArgs, rtRemote, rtExisting, rtReplacement, rtCalls>>
    /\ UNCHANGED rtOthers

\* Run, lines 47-49: the Get request and the deep copy of its result. The
\* request raises when the service answers with an error.
Update_Get ==
    /\ rtPc = "checked"
    /\ rtCalls' = Append(rtCalls, GetRequest)
    /\ \E answered \in BOOLEAN :
          IF answered
            THEN /\ rtExisting' = Some(rtRemote)
                 /\ rtReplacement' = Some(rtRemote)
                 /\ rtPc' = "fetched"
                 /\ UNCHANGED rtRaised
            ELSE /\ RaiseInRun("GetError")
                 /\ UNCHANGED <<rtExisting, rtReplacement>>
    /\ UNCHANGED <<rtArgs, rtRemote>>
    /\ UNCHANGED rtOthers

\* The replace flags applied to the fetched router itself, not to a copy.
Update_Replace_NoCopy ==
    /\ rtPc = "fetched"
    /\ IF ~HasReplaceAdvertisementFlags(rtArgs)
         THEN rtPc' = "replaced" /\ UNCHANGED <<rtExisting, rtReplacement, rtRaised>>
       ELSE IF ParseAdvertisements(rtArgs).raised
         THEN RaiseInRun("ParseAdvertisementsError") /\ UNCHANGED <<rtExisting, rtReplacement>>
       ELSE \E confirmed \in BOOLEAN :
              IF /\ SwitchToDefaultMode(rtExisting[1].bgp.advertiseMode,
                                        ParseAdvertisements(rtArgs).mode)
                 /\ ~confirmed
                THEN RaiseInRun("OperationCancelledError")
                     /\ UNCHANGED <<rtExisting, rtReplacement>>
                ELSE /\ rtReplacement' =
                          Some([bgp |-> SetAttrs(rtReplacement[1].bgp,
                                                 ParseAdvertisements(rtArgs))])
                     /\ rtExisting' = rtReplacement'
                     /\ rtPc' = "replaced"
                     /\ UNCHANGED rtRaised
    /\ UNCHANGED <<rtArgs, rtRemote, rtCalls>>
    /\ UNCHANGED rtOthers

\* Run, lines 51-69: the replace flags. The operator may decline the prompt.
Update_Replace ==
    /\ rtPc = "fetched"
    /\ IF ~HasReplaceAdvertisementFlags(rtArgs)
         THEN rtPc' = "replaced" /\ UNCHANGED <<rtReplacement, rtRaised>>
       ELSE IF ParseAdvertisements(rtArgs).raised
         THEN RaiseInRun("ParseAdvertisementsError") /\ UNCHANGED rtReplacement
       ELSE \E confirmed \in BOOLEAN :
              IF /\ SwitchToDefaultMode(rtExisting[1].bgp.advertiseMode,
                                        ParseAdvertisements(rtArgs).mode)
                 /\ ~confirmed
                THEN RaiseInRun("OperationCancelledError") /\ UNCHANGED rtReplacement
                ELSE /\ rtReplacement' =
                          Some([bgp |-> SetAttrs(rtReplacement[1].bgp,
                                                 ParseAdvertisements(rtArgs))])
                     /\ rtPc' = "replaced"
                     /\ UNCHANGED rtRaised
    /\ UNCHANGED <<rtArgs, rtRemote, rtExisting, rtCalls>>
    /\ UNCHANGED rtOthers

\* The incremental flags with the edits made before the custom-mode check.
Update_Incremental_EditsFirst ==
    /\ rtPc = "replaced"
    /\ IF ~HasIncrementalAdvertisementFlags(rtArgs)
         THEN rtPc' = "edited" /\ UNCHANGED <<rtReplacement, rtRaised>>
       ELSE LET edit == IncrementalEdit(rtReplacement[1].bgp, rtArgs)
            IN IF edit.raised # None
                 THEN RaiseInRun(edit.raised[1]) /\ UNCHANGED rtReplacement
               ELSE IF CustomModeError(rtReplacement[1].bgp)
                 THEN RaiseInRun("CustomModeError")
                      /\ rtReplacement' = Some([bgp |-> edit.bgp])
               ELSE /\ rtReplacement' = Some([bgp |-> edit.bgp])
                    /\ rtPc' = "edited"
                    /\ UNCHANGED rtRaised
    /\ UNCHANGED <<rtArgs, rtRemote, rtExisting, rtCalls>>
    /\ UNCHANGED rtOthers

\* Run, lines 71-105: the incremental flags.
Update_Incremental ==
    /\ rtPc = "replaced"
    /\ IF ~HasIncrementalAdvertisementFlags(rtArgs)
         THEN rtPc' = "edited" /\ UNCHANGED <<rtReplacement, rtRaised>>
       ELSE IF CustomModeError(rtReplacement[1].bgp)
         THEN RaiseInRun("CustomModeError") /\ UNCHANGED rtReplacement
       ELSE LET edit == IncrementalEdit(rtReplacement[1].bgp, rtArgs)
            IN IF edit.raised # None
                 THEN RaiseInRun(edit.raised[1]) /\ UNCHANGED rtReplacement
                 ELSE /\ rtReplacement' = Some([bgp |-> edit.bgp])
                      /\ rtPc' = "edited"
                      /\ UNCHANGED rtRaised
    /\ UNCHANGED <<rtArgs, rtRemote, rtExisting, rtCalls>>
    /\ UNCHANGED rtOthers

\* A Patch request sent also after a check of the run raised.
Update_Patch_AfterRaise ==
    /\ rtPc \in {"edited", "raised"}
    /\ rtReplacement # None
    /\ "Patch" \notin {rtCalls[i].method : i \in 1..Len(rtCalls)}
    /\ LET cleared == ClearedFields(rtReplacement[1].bgp)
       IN /\ rtCalls' = Append(rtCalls, PatchRequest(cleared))
          /\ rtRemote' = Patched(rtRemote, rtReplacement[1], cleared)
          /\ rtPc' = "done"
          /\ UNCHANGED rtRaised
    /\ UNCHANGED <<rtArgs, rtExisting, rtReplacement>>
    /\ UNCHANGED rtOthers

\* Run, lines 107-117: the cleared fields and the Patch request.
Update_Patch ==
    /\ rtPc = "edited"
    /\ LET cleared == ClearedFields(rtReplacement[1].bgp)
       IN /\ rtCalls' = Append(rtCalls, PatchRequest(cleared))
          /\ \E answered \in BOOLEAN :
                IF answered
                  THEN /\ rtRemote' = Patched(rtRemote, rtReplacement[1], cleared)
                       /\ rtPc' = "done"
                       /\ UNCHANGED rtRaised
                  ELSE /\ RaiseInRun("PatchError")
                       /\ UNCHANGED rtRemote
    /\ UNCHANGED <<rtArgs, rtExisting, rtReplacement>>
    /\ UNCHANGED rtOthers

rtNext ==
    \/ Update_CheckIncompatibleFlags
    \/ Update_Get
    \/ Update_Replace
    \/ Update_Incremental
    \/ Update_Patch

-----------------------------------------------------------------------------
(* Claims about compute routers update, checked under SpecRouter *)

\* The methods of the requests sent so far, in order.
MethodsCalled == [i \in 1..Len(rtCalls) |-> rtCalls[i].method]

\* The errors of the flag checks of the run.
ValidationErrors ==
    {Some("IncompatibleFlagsError"), Some("ParseAdvertisementsError"),
     Some("CustomModeError")}

C5_WitnessIncompatible ==
    /\ rtRaised = Some("IncompatibleFlagsError")
    /\ rtCalls = << >>

\* The Patch requests sent so far.
PatchesSent == {i \in 1..Len(rtCalls) : rtCalls[i].method = "Patch"}

\* C22: the cleared fields passed with the Patch request name
\* bgp.advertisedGroups exactly when the replacement's advertisedGroups is
\* empty after all advertisement changes, bgp.advertisedPrefixs exactly when
\* its advertisedPrefixs is empty, and no other field.
C22_ClearedFieldsAreEmptyLists ==
    \A i \in PatchesSent :
        LET cleared == Range(rtCalls[i].cleared_fields)
            bgp == rtReplacement[1].bgp
        IN /\ "bgp.advertisedGroups" \in cleared <=> bgp.advertisedGroups = << >>
           /\ "bgp.advertisedPrefixs" \in cleared <=> bgp.advertisedPrefixs = << >>
           /\ cleared \subseteq {"bgp.advertisedGroups", "bgp.advertisedPrefixs"}

\* The last advertised range was removed and the group is kept: the Patch
\* names the prefixes alone, and the service clears them.
C22_Witness ==
    /\ rtPc = "done"
    /\ TruthyList(rtArgs.remove_advertisement_ranges)
    /\ rtExisting[1].bgp.advertisedPrefixs # << >>
    /\ rtReplacement[1].bgp.advertisedGroups # << >>
    /\ rtCalls[2].cleared_fields = <<"bgp.advertisedPrefixs">>
    /\ rtRemote.bgp.advertisedPrefixs = << >>

C22_WitnessNothingCleared ==
    /\ rtPc = "done"
    /\ rtCalls[2].cleared_fields = << >>

\* The errors of the checks between the start of the run and the Patch
\* request.
CheckErrors ==
    {Some("IncompatibleFlagsError"), Some("ParseAdvertisementsError"),
     Some("OperationCancelledError"), Some("CustomModeError"),
     Some("GroupNotFoundError"), Some("IpRangeNotFoundError")}

\* C23: the requests of a run are Get, then Patch: at most one Patch, sent
\* only after the Get has returned the existing router; when a check of the
\* run raises, no Patch is sent and the service holds the router it held.
C23_GetThenPatch ==
    /\ MethodsCalled \in {<< >>, <<"Get">>, <<"Get", "Patch">>}
    /\ PatchesSent # {} => rtExisting # None
    /\ rtRaised \in CheckErrors =>
          /\ PatchesSent = {}
          /\ rtExisting # None => rtRemote = rtExisting[1]

\* The removal of a range that is not advertised raises after the Get.
C23_Witness ==
    /\ rtRaised = Some("IpRangeNotFoundError")
    /\ MethodsCalled = <<"Get">>
    /\ rtRemote = rtExisting[1]

C23_WitnessPatched ==
    /\ rtPc = "done"
    /\ MethodsCalled = <<"Get", "Patch">>
    /\ rtRemote # rtExisting[1]

\* C24: with an incremental advertisement flag set, the custom-mode check
\* comes before any group or range is added or removed: on a router that is
\* not in custom mode the run ends with the custom-mode error, the
\* advertisement lists are those fetched, and no Patch is sent.
C24_CustomModeBeforeEdits ==
    (/\ HasIncrementalAdvertisementFlags(rtArgs)
     /\ rtExisting # None
     /\ rtExisting[1].bgp.advertiseMode # "CUSTOM"
     /\ rtPc \notin {"fetched", "replaced"})
    => /\ rtRaised = Some("CustomModeError")
       /\ rtReplacement = rtExisting
       /\ PatchesSent = {}
       /\ rtRemote = rtExisting[1]

\* A group is to be added to a router in default mode.
C24_Witness ==
    /\ TruthyList(rtArgs.add_advertisement_groups)
    /\ rtExisting # None
    /\ rtExisting[1].bgp.advertiseMode = "DEFAULT"
    /\ rtRaised = Some("CustomModeError")
    /\ rtReplacement[1].bgp.advertisedGroups = << >>
    /\ MethodsCalled = <<"Get">>

\* A range that is not advertised is to be removed from a router in default
\* mode: the custom-mode error is the one raised.
C24_WitnessRemoval ==
    /\ TruthyList(rtArgs.remove_advertisement_ranges)
    /\ rtExisting # None
    /\ rtExisting[1].bgp.advertiseMode = "DEFAULT"
    /\ rtRaised = Some("CustomModeError")

\* No advertisement flag changes the router.
NoAdvertisementFlags ==
    /\ ~HasReplaceAdvertisementFlags(rtArgs)
    /\ ~HasIncrementalAdvertisementFlags(rtArgs)

\* C25: the edits are made on a copy: once fetched, `existing` is never
\* modified; the prompt on a switch to default mode is decided on the mode
\* the router was fetched with; with no advertisement flag set the
\* replacement sent with the Patch equals the fetched router.
C25_EditsOnCopy ==
    [][/\ rtExisting # None => rtExisting' = rtExisting
       /\ rtRaised' = Some("OperationCancelledError") =>
             /\ rtExisting[1].bgp.advertiseMode = "CUSTOM"
             /\ rtArgs.advertisement_mode = Some("DEFAULT")
       /\ (NoAdvertisementFlags /\ Len(rtCalls') > Len(rtCalls) /\ rtPc = "edited")
             => rtReplacement = rtExisting]_vars

\* The replace flags changed the replacement and left `existing` as fetched.
C25_Witness ==
    /\ rtPc = "done"
    /\ HasReplaceAdvertisementFlags(rtArgs)
    /\ rtReplacement # rtExisting
    /\ rtExisting[1].bgp.advertiseMode = "CUSTOM"
    /\ rtReplacement[1].bgp.advertiseMode = "DEFAULT"

C25_WitnessNoFlags ==
    /\ rtPc = "done"
    /\ NoAdvertisementFlags
    /\ rtReplacement = rtExisting

-----------------------------------------------------------------------------
(* firebase test android models list *)

MaxModels == 3

ModelIds == {"Nexus5", "Pixel", "hammerhead", "walleye"}
VersionIdLists == {<< >>, <<"21">>, <<"21", "23">>}

\* A catalog lists each model id once; a model with no supported OS version
\* has an empty supportedVersionIds.
AndroidModels == [id : ModelIds, supportedVersionIds : VersionIdLists]

AndroidCatalogs ==
    {c \in SeqUpTo(AndroidModels, MaxModels) :
        \A i, j \in 1..Len(c) : i # j => c[i].id # c[j].id}

fmInit ==
    /\ fmRemote \in AndroidCatalogs
    /\ fmCatalog = None
    /\ fmResult = None
    /\ fmRaised = None
    /\ fmPc = "start"

\* catalog = util.GetAndroidCatalog(self.context): the catalog of the
\* service, or the error of the request.
Models_GetAndroidCatalog ==
    /\ fmPc = "start"
    /\ \/ fmCatalog' = Some([models |-> fmRemote]) /\ fmPc' = "fetched"
          /\ UNCHANGED fmRaised
       \/ fmRaised' = Some("HttpException") /\ fmPc' = "raised"
          /\ UNCHANGED fmCatalog
    /\ UNCHANGED <<fmRemote, fmResult>>
    /\ UNCHANGED fmOthers

\* [model for model in models if model.supportedVersionIds]
RECURSIVE SupportedModels(_)
SupportedModels(models) ==
    IF models = << >> THEN << >>
    ELSE (IF Head(models).supportedVersionIds # << >> THEN <<Head(models)>> ELSE << >>)
         \o SupportedModels(Tail(models))

\* A return of every model of the catalog.
Models_Return_Unfiltered ==
    /\ fmPc = "fetched"
    /\ fmResult' = Some(fmCatalog[1].models)
    /\ fmPc' = "returned"
    /\ UNCHANGED <<fmRemote, fmCatalog, fmRaised>>
    /\ UNCHANGED fmOthers

Models_Return ==
    /\ fmPc = "fetched"
    /\ fmResult' = Some(SupportedModels(fmCatalog[1].models))
    /\ fmPc' = "returned"
    /\ UNCHANGED <<fmRemote, fmCatalog, fmRaised>>
    /\ UNCHANGED fmOthers

fmNext ==
    \/ Models_GetAndroidCatalog
    \/ Models_Return

-----------------------------------------------------------------------------
(* Claims about firebase test android models list, checked under SpecModels *)

\* The positions of the catalog whose model has a supported OS version.
SupportedPositions == {i \in 1..Len(fmRemote) : fmRemote[i].supportedVersionIds # << >>}

\* The k-th of them, counted from the start of the catalog.
SupportedPosition(k) ==
    CHOOSE i \in SupportedPositions :
        Cardinality({j \in SupportedPositions : j <= i}) = k

\* C21: the list returned holds exactly the catalog models with at least one
\* supported OS version id, in catalog order: every returned model has a
\* non-empty supportedVersionIds, and every such model of the catalog is
\* returned once, at the place its catalog position gives it.
C21_SupportedModelsReturned ==
    fmPc = "returned" =>
      /\ \A k \in 1..Len(fmResult[1]) : fmResult[1][k].supportedVersionIds # << >>
      /\ Len(fmResult[1]) = Cardinality(SupportedPositions)
      /\ \A k \in 1..Len(fmResult[1]) : fmResult[1][k] = fmRemote[SupportedPosition(k)]

\* A catalog whose first model has no supported version and whose other two
\* have: the two are returned.
C21_Witness ==
    /\ fmPc = "returned"
    /\ Len(fmRemote) = 3
    /\ fmRemote[1].supportedVersionIds = << >>
    /\ Len(fmResult[1]) = 2
    /\ fmResult[1] = <<fmRemote[2], fmRemote[3]>>

C21_WitnessNoneSupported ==
    /\ fmPc = "returned"
    /\ fmRemote # << >>
    /\ fmResult = Some(<< >>)

\* A specification runs one part of the program; the other parts rest.
lsIdle ==
    /\ lsProject = None
    /\ lsProjectZones = << >>
    /\ lsNames = <<"vm-1">>
    /\ lsErrors = << >>
    /\ lsMatching = << >>
    /\ lsLog = << >>
    /\ lsResult = None
    /\ lsRaised = None
    /\ lsPc = "idle"

dkIdle ==
    /\ args = BaseArgs(FALSE)
    /\ enable_kms = FALSE
    /\ called = "idle"
    /\ ran = << >>
    /\ outcome = Returned

rtIdle ==
    /\ rtArgs = NoAdvertisementArgs
    /\ rtRemote = [bgp |-> [advertiseMode |-> "DEFAULT", advertisedGroups |-> << >>,
                            advertisedPrefixs |-> << >>]]
    /\ rtExisting = None
    /\ rtReplacement = None
    /\ rtCalls = << >>
    /\ rtRaised = None
    /\ rtPc = "idle"

ssIdle ==
    /\ ssInput = << >>
    /\ ssArgs = [local_ssd |-> None]
    /\ ssOutcome = Returned
    /\ ssPc = "idle"

djIdle ==
    /\ djId = "job-1"
    /\ djRemote = {}
    /\ djAnswer = None
    /\ djTrace = << >>
    /\ djRaised = None
    /\ djPc = "idle"

eaIdle ==
    /\ eaAddress = None
    /\ eaRegion = "region-1"
    /\ eaProject = None
    /\ eaRemote = {}
    /\ eaRef = None
    /\ eaRequests = << >>
    /\ eaErrors = << >>
    /\ eaResult = None
    /\ eaRaised = None
    /\ eaPc = "idle"

fmIdle ==
    /\ fmRemote = << >>
    /\ fmCatalog = None
    /\ fmResult = None
    /\ fmRaised = None
    /\ fmPc = "idle"

InitLister == lsInit /\ dkIdle /\ rtIdle /\ ssIdle /\ djIdle /\ eaIdle /\ fmIdle

NextLister == lsNext

SpecLister == InitLister /\ [][NextLister]_vars

InitDisk == dkInit /\ lsIdle /\ rtIdle /\ ssIdle /\ djIdle /\ eaIdle /\ fmIdle

NextDisk == dkNext

SpecDisk == InitDisk /\ [][NextDisk]_vars

InitRouter == rtInit /\ lsIdle /\ dkIdle /\ ssIdle /\ djIdle /\ eaIdle /\ fmIdle

NextRouter == rtNext

SpecRouter == InitRouter /\ [][NextRouter]_vars

InitLocalSsd == ssInit /\ lsIdle /\ dkIdle /\ rtIdle /\ djIdle /\ eaIdle /\ fmIdle

NextLocalSsd == ssNext

SpecLocalSsd == InitLocalSsd /\ [][NextLocalSsd]_vars

InitJobsDelete == djInit /\ lsIdle /\ dkIdle /\ rtIdle /\ ssIdle /\ eaIdle /\ fmIdle

NextJobsDelete == djNext

SpecJobsDelete == InitJobsDelete /\ [][NextJobsDelete]_vars

InitAddress == eaInit /\ lsIdle /\ dkIdle /\ rtIdle /\ ssIdle /\ djIdle /\ fmIdle

NextAddress == eaNext

SpecAddress == InitAddress /\ [][NextAddress]_vars

InitModels == fmInit /\ lsIdle /\ dkIdle /\ rtIdle /\ ssIdle /\ djIdle /\ eaIdle

NextModels == fmNext

SpecModels == InitModels /\ [][NextModels]_vars

Init ==
    \/ InitLister
    \/ InitDisk
    \/ InitRouter
    \/ InitLocalSsd
    \/ InitJobsDelete
    \/ InitAddress
    \/ InitModels

Next ==
    \/ NextLister
    \/ NextDisk
    \/ NextRouter
    \/ NextLocalSsd
    \/ NextJobsDelete
    \/ NextAddress
    \/ NextModels

Spec == Init /\ [][Next]_vars

=============================================================================
